---- MODULE Spec2Model ----
(***************************************************************************)
(* Model of the meeting assistant: the conversion, probing, segmentation   *)
(* and sequential transcription pipeline (src/src/audio_divide.py,         *)
(* src/src/transcriptions.py, src/src/tasks.py, src/src/llm.py), the       *)
(* token/cost estimator (src/src/token_cost.py), the text files of         *)
(* save_* and open_*, the command line program (src/meeting_assistant.py)  *)
(* and, as SpecRuns, two runs of the pipeline side by side.                *)
(*                                                                         *)
(* Durations are integers in milliseconds (pydub's len(audio)).  Texts are *)
(* sequences of one-character strings, so that joining and separators are  *)
(* computed, not assumed.  A path is a record [dir, stem, suffix].         *)
(***************************************************************************)
EXTENDS Integers, Sequences, FiniteSets, TLC

VARIABLES
    entry,              \* the function called from outside
    pc,                 \* position in the running code
    stack,              \* return positions of the callers
    ret,                \* value or exception handed to the caller
    result,             \* what the outermost call returned or raised
    calls,              \* trace of the calls made to collaborators
    fs,                 \* paths that exist in the filesystem
    cfg_max,            \* config.MAX_AUDIO_LENGTH_MINUTES
    in_path,            \* transcribe_audio: the audio_path argument
    audio_path,         \* transcribe_audio: the local audio_path
    audio_len,          \* len(audio) in ms of the asset that is decoded
    duration,           \* transcribe_audio: probed duration, in ms
    sa_path,            \* split_audio: audio_path
    max_length_minutes, \* split_audio: max_length_minutes
    max_length_ms,      \* split_audio: max_length_ms
    total_segments,     \* split_audio: total_segments (announced)
    i,                  \* split_audio: loop variable of range(0, len, max)
    sa_segments,        \* split_audio: segments
    exported,           \* files written by segment.export: [path, lo, hi]
    segments,           \* _transcribe_segments / process_audio_segments: argument
    transcriptions,     \* the fragment list being built
    idx,                \* enumerate(segments, 1): index of the next segment
    w_path,             \* transcribe_with_whisper: audio_file_path
    inflight,           \* transcription requests sent and not yet answered
    answers,            \* each transcribe_with_whisper call: [path, backend, out]
    cv_probe,           \* convert_to_audio: what ffmpeg.probe gave
    process,            \* convert_to_audio: the transcode process, as last polled
    cv_output,          \* convert_to_audio: state of the file at output_path
    gd_probe,           \* get_audio_duration: what ffmpeg.probe gave
    cfg_model,          \* config.DEFAULT_MODEL
    registry,           \* models tiktoken.encoding_for_model knows
    prompt,             \* chat_completion: prompt (generate_summary: text)
    system_prompt,      \* chat_completion: system_prompt
    max_tokens,         \* chat_completion: max_tokens
    tk_model,           \* calculate_token_cost / get_token_count: model
    tk_max,             \* calculate_token_cost: max_output_tokens
    input_tokens,       \* calculate_token_cost: input_tokens
    chat_response,      \* what the chat backend answered; get_completion_text: response
    argc,               \* main: len(sys.argv)
    ffmpeg_installed,   \* main: whether the ffmpeg executable can be started
    api_key,            \* main: whether OPENAI_API_KEY is set
    transcription,      \* main: transcription
    summary,            \* main: summary
    io_text,            \* save_transcription / save_translation: the text argument
    io_path,            \* save_* : output_path; open_* : file_path
    dirs,               \* directories that exist
    textfiles,          \* text files that exist: [path, data]
    linesep,            \* os.linesep
    runs,               \* two runs of the pipeline side by side: the state of each
    scratch,            \* the scratch files in OUTPUT_DIR: [path, writer], last writer
    writes,             \* every write of a scratch file: [path, by]
    reads               \* every read of a scratch file: [path, by, from]

pipeVars == <<entry, pc, stack, ret, result, calls, fs, cfg_max, in_path,
              audio_path, audio_len, duration, sa_path, max_length_minutes,
              max_length_ms, total_segments, i, sa_segments, exported,
              segments, transcriptions, idx, w_path, inflight, answers,
              cv_probe, process, cv_output, gd_probe>>

llmVars == <<cfg_model, registry, prompt, system_prompt, max_tokens, tk_model,
             tk_max, input_tokens, chat_response>>

mainVars == <<argc, ffmpeg_installed, api_key, transcription, summary>>

ioVars == <<io_text, io_path, dirs, textfiles, linesep>>

concVars == <<runs, scratch, writes, reads>>

\* what only main, the text-file functions and the two runs read or write
outerVars == <<mainVars, ioVars, concVars>>

vars == <<pipeVars, llmVars, outerVars>>

cvLocals == <<cv_probe, process, cv_output>>

\* what the steps of transcribe_audio, split_audio and the segment loops leave alone
otherThanPipe == <<llmVars, cvLocals, gd_probe, outerVars>>

\* what the steps of convert_to_audio leave alone, besides the pipeline's frames
otherThanConvert == <<llmVars, gd_probe, outerVars>>

\* what the steps of get_audio_duration leave alone, besides the pipeline's frames
otherThanProbe == <<llmVars, cvLocals, outerVars>>

----------------------------------------------------------------------------
(* Bounds of the model. *)

\* longest segment list handed directly to the segment loops
MaxSegments == 3
\* transcribe_audio: longest asset, counted in half windows
MaxHalfWindows == 5

\* most tokens the tokenizer counts in an input text
MaxInputTokens == 2

(* Program constants. *)

\* config.MAX_TOKENS default
DEFAULT_MAX_TOKENS == 4000

\* config.MAX_AUDIO_LENGTH_MINUTES default
DEFAULT_MAX_AUDIO_LENGTH_MINUTES == 10

NL == "\n"

OUTPUT_DIR == "output"

----------------------------------------------------------------------------
(* Values. *)

NoPath == [dir |-> "", stem |-> "", suffix |-> ""]

Ok(v) == [kind |-> "ok", type |-> "", value |-> v]

Exc(t) == [kind |-> "exc", type |-> t, value |-> <<>>]

None == [kind |-> "none", type |-> "", value |-> <<>>]

Call(f, p) == [fn |-> f, arg |-> p]

MsOfMinutes(m) == m * 60 * 1000

\* Python's // and % (floor division; the remainder has the divisor's sign)
PyFloorDiv(a, b) == a \div b

PyMod(a, b) == a - b * PyFloorDiv(a, b)

Min(a, b) == IF a <= b THEN a ELSE b

\* Python's range(0, stop, step) membership of the next value, step # 0
InRange(v, stop, step) == IF step > 0 THEN v < stop ELSE v > stop

\* str.lower() on the suffixes the model uses
Lower(s) ==
    CASE s = ".MP3" -> ".mp3"
      [] s = ".MP4" -> ".mp4"
      [] s = ".Xyz" -> ".xyz"
      [] OTHER -> s

SUPPORTED_AUDIO_EXTENSIONS == {".mp3", ".wav", ".m4a", ".aac", ".ogg", ".flac"}

SUPPORTED_VIDEO_EXTENSIONS == {".mp4", ".avi", ".mkv", ".mov", ".wmv", ".flv"}

is_audio_file(p) == Lower(p.suffix) \in SUPPORTED_AUDIO_EXTENSIONS

is_video_file(p) == Lower(p.suffix) \in SUPPORTED_VIDEO_EXTENSIONS

\* OUTPUT_DIR / f"{Path(audio_path).stem}_part{k}.mp3"
SegmentPath(p, k) ==
    [dir |-> OUTPUT_DIR, stem |-> p.stem \o "_part" \o ToString(k), suffix |-> ".mp3"]

\* OUTPUT_DIR / f"{Path(video_path).stem}_audio.mp3"
ConvertedPath(p) ==
    [dir |-> OUTPUT_DIR, stem |-> p.stem \o "_audio", suffix |-> ".mp3"]

----------------------------------------------------------------------------
(* Returning and raising: the outermost call ends the run, an inner call    *)
(* hands its value or exception to the position its caller left.           *)

Return(v) ==
    IF stack = <<>>
    THEN /\ pc' = "done"
         /\ result' = v
         /\ UNCHANGED <<stack, ret>>
    ELSE /\ pc' = Head(stack)
         /\ stack' = Tail(stack)
         /\ ret' = v
         /\ UNCHANGED result

Raise(t) == Return(Exc(t))

----------------------------------------------------------------------------
(* Frames. *)

control == <<pc, stack, ret, result>>

envVars == <<entry, cfg_max, audio_len>>

taLocals == <<in_path, audio_path, duration>>

saLocals == <<sa_path, max_length_minutes, max_length_ms, total_segments, i, sa_segments>>

tsLocals == <<segments, transcriptions, idx>>

wLocals == <<w_path, inflight, answers>>

\* what only the functions of the pipeline read or write
innerVars == <<cfg_max, audio_len, taLocals, saLocals, tsLocals, wLocals, fs, exported,
               cvLocals, gd_probe>>

\* what the language-model functions leave alone
pipeLocals == <<innerVars, outerVars>>

----------------------------------------------------------------------------
(* split_audio, src/src/audio_divide.py *)

\* the end of the slice is not clamped
Slice_Unclamped(lo, hi, len) == [lo |-> lo, hi |-> hi]

\* pydub: audio[lo:hi] is clamped to the audio's length
Slice(lo, hi, len) == [lo |-> Min(lo, len), hi |-> Min(hi, len)]

\* the remainder is not counted
TotalSegments_Floor(len, max) == PyFloorDiv(len, max)

\* len(audio) // max_length_ms + (1 if len(audio) % max_length_ms > 0 else 0)
TotalSegments(len, max) ==
    PyFloorDiv(len, max) + (IF PyMod(len, max) > 0 THEN 1 ELSE 0)

\* an audio exactly as long as the window is split
NeedsNoSplit_Strict(len, max) == len < max

\* the fast path test: the audio is not longer than the window
NeedsNoSplit(len, max) == len <= max

\* the step of range(0, len(audio), max_length_ms)
NextWindowStart(start, max) == start + max

\* the 1-based number given to the segment being exported
\* the sequence index counted from 0
NextSegmentNumber_FromZero(segs) == Len(segs)

NextSegmentNumber(segs) == Len(segs) + 1

SA_CheckExists ==
    /\ pc = "sa_start"
    /\ calls' = Append(calls, Call("os.path.exists", sa_path))
    /\ IF sa_path \notin fs
       THEN Raise("FileNotFoundError")
       ELSE pc' = "sa_load" /\ UNCHANGED <<stack, ret, result>>
    /\ UNCHANGED <<envVars, taLocals, saLocals, tsLocals, wLocals, fs, exported>>
    /\ UNCHANGED otherThanPipe

SA_Load ==
    /\ pc = "sa_load"
    /\ calls' = Append(calls, Call("AudioSegment.from_file", sa_path))
    /\ \/ pc' = "sa_plan" /\ UNCHANGED <<stack, ret, result>>
       \/ Raise("ValueError")
    /\ UNCHANGED <<envVars, taLocals, saLocals, tsLocals, wLocals, fs, exported>>
    /\ UNCHANGED otherThanPipe

SA_Plan ==
    /\ pc = "sa_plan"
    /\ max_length_ms' = MsOfMinutes(max_length_minutes)
    /\ IF NeedsNoSplit(audio_len, max_length_ms')
       THEN /\ Return(Ok(<<sa_path>>))
            /\ UNCHANGED <<total_segments, i, sa_segments>>
       ELSE IF max_length_ms' = 0
       THEN /\ Raise("ValueError")      \* ZeroDivisionError, wrapped by the handler
            /\ UNCHANGED <<total_segments, i, sa_segments>>
       ELSE /\ total_segments' = TotalSegments(audio_len, max_length_ms')
            /\ sa_segments' = <<>>
            /\ i' = 0
            /\ pc' = "sa_loop"
            /\ UNCHANGED <<stack, ret, result>>
    /\ UNCHANGED <<envVars, taLocals, sa_path, max_length_minutes, tsLocals,
                   wLocals, fs, exported, calls>>
    /\ UNCHANGED otherThanPipe

SA_Export ==
    /\ pc = "sa_loop"
    /\ InRange(i, audio_len, max_length_ms)
    /\ LET segment == Slice(i, i + max_length_ms, audio_len)
           segment_path == SegmentPath(sa_path, NextSegmentNumber(sa_segments))
       IN  /\ calls' = Append(calls, Call("export", segment_path))
           /\ \/ /\ exported' = Append(exported,
                        [path |-> segment_path, lo |-> segment.lo, hi |-> segment.hi])
                 /\ fs' = fs \cup {segment_path}
                 /\ sa_segments' = Append(sa_segments, segment_path)
                 /\ i' = NextWindowStart(i, max_length_ms)
                 /\ UNCHANGED control
              \/ /\ Raise("ValueError")
                 /\ UNCHANGED <<exported, fs, sa_segments, i>>
    /\ UNCHANGED <<envVars, taLocals, sa_path, max_length_minutes, max_length_ms,
                   total_segments, tsLocals, wLocals>>
    /\ UNCHANGED otherThanPipe

SA_Return ==
    /\ pc = "sa_loop"
    /\ ~InRange(i, audio_len, max_length_ms)
    /\ Return(Ok(sa_segments))
    /\ UNCHANGED <<envVars, taLocals, saLocals, tsLocals, wLocals, fs, exported, calls>>
    /\ UNCHANGED otherThanPipe

----------------------------------------------------------------------------
(* transcribe_with_whisper, src/src/llm.py *)

\* texts the transcription backend may answer with
Texts == {<<>>, <<"a">>, <<"b", NL, "c">>}

\* what the backend does with a request: a response with a text field, a
\* response without one, or an exception
BackendAnswers == {[shape |-> "text", text |-> t] : t \in Texts}
                  \cup {[shape |-> "no_text", text |-> <<>>],
                        [shape |-> "raises", text |-> <<>>]}

NoAnswer == [shape |-> "none", text |-> <<>>]

\* a response without a text field is read as an empty text
WhisperOutcome_EmptyForMalformed(a) ==
    IF a.shape = "raises" THEN Exc("OpenAIError") ELSE Ok(a.text)

\* lines 33-44: what the call gives for a backend answer
WhisperOutcome(a) ==
    IF a.shape = "text" THEN Ok(a.text) ELSE Exc("OpenAIError")

W_Open ==
    /\ pc = "w_open"
    /\ IF w_path \notin fs
       THEN /\ calls' = Append(calls, Call("transcribe_with_whisper", w_path))
            /\ Raise("FileNotFoundError")
            /\ answers' = Append(answers, [path |-> w_path, backend |-> NoAnswer,
                                           out |-> Exc("FileNotFoundError")])
            /\ UNCHANGED inflight
       ELSE /\ calls' = calls \o <<Call("transcribe_with_whisper", w_path),
                                   Call("openai.Audio.transcribe", w_path)>>
            /\ inflight' = inflight + 1
            /\ pc' = "w_wait"
            /\ UNCHANGED <<stack, ret, result, answers>>
    /\ UNCHANGED <<envVars, taLocals, saLocals, tsLocals, w_path, fs, exported>>
    /\ UNCHANGED otherThanPipe

\* a request that failed is sent once more before the call gives up
W_Response_RetryOnce ==
    /\ pc = "w_wait"
    /\ \E a \in BackendAnswers :
          IF a.shape # "text" /\ calls[Len(calls) - 1].fn = "transcribe_with_whisper"
          THEN /\ calls' = Append(calls, Call("openai.Audio.transcribe", w_path))
               /\ UNCHANGED <<control, inflight, answers>>
          ELSE /\ inflight' = inflight - 1
               /\ answers' = Append(answers, [path |-> w_path, backend |-> a,
                                              out |-> WhisperOutcome(a)])
               /\ Return(WhisperOutcome(a))
               /\ UNCHANGED calls
    /\ UNCHANGED <<envVars, taLocals, saLocals, tsLocals, w_path, fs, exported>>
    /\ UNCHANGED otherThanPipe

W_Response ==
    /\ pc = "w_wait"
    /\ \E a \in BackendAnswers :
          /\ inflight' = inflight - 1
          /\ answers' = Append(answers, [path |-> w_path, backend |-> a,
                                         out |-> WhisperOutcome(a)])
          /\ Return(WhisperOutcome(a))
    /\ UNCHANGED <<envVars, taLocals, saLocals, tsLocals, w_path, fs, exported, calls>>
    /\ UNCHANGED otherThanPipe

----------------------------------------------------------------------------
(* _transcribe_segments, src/src/transcriptions.py *)

RECURSIVE JoinWith(_, _)
\* sep.join(list)
JoinWith(sep, list) ==
    IF list = <<>> THEN <<>>
    ELSE IF Len(list) = 1 THEN list[1]
    ELSE list[1] \o sep \o JoinWith(sep, Tail(list))

\* empty fragments are dropped before joining
JoinFragments_SkipEmpty(list) ==
    JoinWith(<<NL>>, SelectSeq(list, LAMBDA f : f # <<>>))

\* "\n".join(transcriptions)
JoinFragments(list) == JoinWith(<<NL>>, list)

\* the fragment recorded for one call: its text, or "" when it raised
Fragment(r) == IF r.kind = "ok" THEN r.value ELSE <<>>

\* the loop ends at the first failed segment
HasNextSegment_UntilFailure(k, segs) ==
    /\ k <= Len(segs)
    /\ \A j \in 1..Len(transcriptions) : answers[j].out.kind = "ok"

\* the loop goes on while enumerate(segments, 1) has a next element
HasNextSegment(k, segs) == k <= Len(segs)

TS_Start ==
    /\ pc = "ts_start"
    /\ transcriptions' = <<>>
    /\ idx' = 1
    /\ pc' = "ts_loop"
    /\ UNCHANGED <<stack, ret, result, envVars, taLocals, saLocals, segments,
                   wLocals, fs, exported, calls>>
    /\ UNCHANGED otherThanPipe

TS_Dispatch ==
    /\ pc = "ts_loop"
    /\ HasNextSegment(idx, segments)
    /\ w_path' = segments[idx]
    /\ stack' = <<"ts_after">> \o stack
    /\ pc' = "w_open"
    /\ UNCHANGED <<ret, result, envVars, taLocals, saLocals, tsLocals, inflight,
                   answers, fs, exported, calls>>
    /\ UNCHANGED otherThanPipe

\* a failed segment leaves no entry in the list
TS_After_SkipFailed ==
    /\ pc = "ts_after"
    /\ transcriptions' = IF ret.kind = "ok" THEN Append(transcriptions, ret.value)
                                            ELSE transcriptions
    /\ idx' = idx + 1
    /\ pc' = "ts_loop"
    /\ UNCHANGED <<stack, ret, result, envVars, taLocals, saLocals, segments,
                   wLocals, fs, exported, calls>>
    /\ UNCHANGED otherThanPipe

TS_After ==
    /\ pc = "ts_after"
    /\ transcriptions' = Append(transcriptions, Fragment(ret))
    /\ idx' = idx + 1
    /\ pc' = "ts_loop"
    /\ UNCHANGED <<stack, ret, result, envVars, taLocals, saLocals, segments,
                   wLocals, fs, exported, calls>>
    /\ UNCHANGED otherThanPipe

\* a run in which no segment gave a text is an error
TS_Join_FailsWhenEmpty ==
    /\ pc = "ts_loop"
    /\ ~HasNextSegment(idx, segments)
    /\ IF \A k \in DOMAIN transcriptions : transcriptions[k] = <<>>
       THEN Raise("ValueError")
       ELSE Return(Ok(JoinFragments(transcriptions)))
    /\ UNCHANGED <<envVars, taLocals, saLocals, tsLocals, wLocals, fs, exported, calls>>
    /\ UNCHANGED otherThanPipe

TS_Join ==
    /\ pc = "ts_loop"
    /\ ~HasNextSegment(idx, segments)
    /\ Return(Ok(JoinFragments(transcriptions)))
    /\ UNCHANGED <<envVars, taLocals, saLocals, tsLocals, wLocals, fs, exported, calls>>
    /\ UNCHANGED otherThanPipe

----------------------------------------------------------------------------
(* process_audio_segments, src/src/tasks.py *)

PAS_Start ==
    /\ pc = "pas_start"
    /\ transcriptions' = <<>>
    /\ idx' = 1
    /\ pc' = "pas_loop"
    /\ UNCHANGED <<stack, ret, result, envVars, taLocals, saLocals, segments,
                   wLocals, fs, exported, calls>>
    /\ UNCHANGED otherThanPipe

PAS_Dispatch ==
    /\ pc = "pas_loop"
    /\ HasNextSegment(idx, segments)
    /\ w_path' = segments[idx]
    /\ stack' = <<"pas_after">> \o stack
    /\ pc' = "w_open"
    /\ UNCHANGED <<ret, result, envVars, taLocals, saLocals, tsLocals, inflight,
                   answers, fs, exported, calls>>
    /\ UNCHANGED otherThanPipe

PAS_After ==
    /\ pc = "pas_after"
    /\ transcriptions' = Append(transcriptions, Fragment(ret))
    /\ idx' = idx + 1
    /\ pc' = "pas_loop"
    /\ UNCHANGED <<stack, ret, result, envVars, taLocals, saLocals, segments,
                   wLocals, fs, exported, calls>>
    /\ UNCHANGED otherThanPipe

PAS_Return ==
    /\ pc = "pas_loop"
    /\ ~HasNextSegment(idx, segments)
    /\ Return(Ok(transcriptions))
    /\ UNCHANGED <<envVars, taLocals, saLocals, tsLocals, wLocals, fs, exported, calls>>
    /\ UNCHANGED otherThanPipe

----------------------------------------------------------------------------
(* convert_to_audio and get_audio_duration, src/src/audio_divide.py *)

\* how far the duration in the container metadata may lie above the decoded length, in ms
MetadataSkews == {0, 1}

NoProbe == [shape |-> "none", ms |-> 0]

\* what ffmpeg.probe gives for an asset of the given decoded length: metadata
\* with a duration, metadata without a stream, without a duration field or
\* with a duration that is not a number, or ffmpeg.Error
ProbeAnswers(len) ==
    {[shape |-> "duration", ms |-> len + k] : k \in MetadataSkews}
    \cup {[shape |-> s, ms |-> 0] :
             s \in {"error", "no_stream", "no_duration", "not_a_number"}}

\* float(probe['streams'][0]['duration']), in ms
ProbedDuration(answer) ==
    CASE answer.shape = "duration" -> Ok(answer.ms)
      [] answer.shape = "no_stream" -> Exc("IndexError")
      [] answer.shape = "no_duration" -> Exc("KeyError")
      [] answer.shape = "not_a_number" -> Exc("ValueError")
      [] OTHER -> Exc("ffmpeg.Error")

\* except ffmpeg.Error: the only exception that starts the secondary path
CaughtByFallback(t) == t = "ffmpeg.Error"

\* lines 40-46
CV_Start ==
    /\ pc = "cv_start"
    /\ calls' = Append(calls, Call("convert_to_audio", audio_path))
    /\ IF audio_path \notin fs
       THEN Raise("FileNotFoundError")
       ELSE pc' = "cv_probe" /\ UNCHANGED <<stack, ret, result>>
    /\ UNCHANGED <<envVars, taLocals, saLocals, tsLocals, wLocals, fs, exported, cvLocals>>
    /\ UNCHANGED otherThanConvert

\* lines 56-57, and the except clause of line 83
CV_Probe ==
    /\ pc = "cv_probe"
    /\ calls' = Append(calls, Call("ffmpeg.probe", audio_path))
    /\ \E answer \in ProbeAnswers(audio_len) :
          /\ cv_probe' = answer
          /\ IF ProbedDuration(answer).kind = "ok"
             THEN pc' = "cv_run" /\ UNCHANGED <<stack, ret, result>>
             ELSE IF CaughtByFallback(ProbedDuration(answer).type)
             THEN pc' = "cv_moviepy" /\ UNCHANGED <<stack, ret, result>>
             ELSE Raise(ProbedDuration(answer).type)
    /\ UNCHANGED <<envVars, taLocals, saLocals, tsLocals, wLocals, fs, exported,
                   process, cv_output>>
    /\ UNCHANGED otherThanConvert

\* lines 59-70: the transcode is started as a child process
CV_Run ==
    /\ pc = "cv_run"
    /\ calls' = Append(calls, Call("ffmpeg.run_async", ConvertedPath(audio_path)))
    /\ process' = "started"
    /\ pc' = "cv_poll"
    /\ UNCHANGED <<stack, ret, result, envVars, taLocals, saLocals, tsLocals, wLocals,
                   fs, exported, cv_probe, cv_output>>
    /\ UNCHANGED otherThanConvert

\* what process.poll() reports: None while the child runs, else its exit status
PollResults == {"running", "exit0", "exit1"}

\* what a transcode or a write that failed can leave at output_path
FailedOutputs == {"none", "partial"}

\* lines 72-81: one test of the loop condition, with the body or the exit
CV_Poll ==
    /\ pc = "cv_poll"
    /\ \E polled \in PollResults :
          /\ process' = polled
          /\ IF polled = "running"
             THEN /\ IF ProbedDuration(cv_probe).value = 0
                     THEN Raise("ZeroDivisionError")
                     ELSE UNCHANGED control
                  /\ UNCHANGED <<fs, cv_output>>
             ELSE /\ \E left \in (IF polled = "exit0" THEN {"complete"} ELSE FailedOutputs) :
                        /\ cv_output' = left
                        /\ fs' = IF left = "none" THEN fs
                                 ELSE fs \cup {ConvertedPath(audio_path)}
                  /\ Return(Ok(ConvertedPath(audio_path)))
    /\ UNCHANGED <<envVars, taLocals, saLocals, tsLocals, wLocals, exported, cv_probe, calls>>
    /\ UNCHANGED otherThanConvert

\* line 88, with the handlers of lines 103-108 when the clip cannot be opened
CV_Moviepy ==
    /\ pc = "cv_moviepy"
    /\ calls' = Append(calls, Call("mp.VideoFileClip", audio_path))
    /\ \/ pc' = "cv_write" /\ UNCHANGED <<stack, ret, result>>
       \/ Raise("ValueError")
    /\ UNCHANGED <<envVars, taLocals, saLocals, tsLocals, wLocals, fs, exported, cvLocals>>
    /\ UNCHANGED otherThanConvert

\* lines 97 and 106-108: the calls of video.close() when the write succeeded
ClosesOnSuccess == <<Call("video.close", "line 97"), Call("video.close", "finally")>>

\* lines 89-108: the clip is open
CV_Write ==
    /\ pc = "cv_write"
    /\ \/ \* video.audio is None
          /\ calls' = calls \o <<Call("video.close", "finally")>>
          /\ Raise("ValueError")
          /\ UNCHANGED <<fs, cv_output>>
       \/ \* write_audiofile raises
          /\ calls' = calls \o <<Call("write_audiofile", ConvertedPath(audio_path)),
                                 Call("video.close", "finally")>>
          /\ \E left \in FailedOutputs :
                /\ cv_output' = left
                /\ fs' = IF left = "none" THEN fs ELSE fs \cup {ConvertedPath(audio_path)}
          /\ Raise("ValueError")
       \/ \* write_audiofile returns
          /\ calls' = calls \o <<Call("write_audiofile", ConvertedPath(audio_path))>>
                            \o ClosesOnSuccess
          /\ cv_output' = "complete"
          /\ fs' = fs \cup {ConvertedPath(audio_path)}
          /\ Return(Ok(ConvertedPath(audio_path)))
    /\ UNCHANGED <<envVars, taLocals, saLocals, tsLocals, wLocals, exported, cv_probe, process>>
    /\ UNCHANGED otherThanConvert

\* lines 181-183
GD_Start ==
    /\ pc = "gd_start"
    /\ calls' = Append(calls, Call("get_audio_duration", audio_path))
    /\ IF audio_path \notin fs
       THEN Raise("FileNotFoundError")
       ELSE pc' = "gd_probe" /\ UNCHANGED <<stack, ret, result>>
    /\ UNCHANGED <<envVars, taLocals, saLocals, tsLocals, wLocals, fs, exported, gd_probe>>
    /\ UNCHANGED otherThanProbe

\* lines 185-191: the metadata query
GD_Primary ==
    /\ pc = "gd_probe"
    /\ calls' = Append(calls, Call("ffmpeg.probe", audio_path))
    /\ \E answer \in ProbeAnswers(audio_len) :
          /\ gd_probe' = answer
          /\ IF ProbedDuration(answer).kind = "ok"
             THEN Return(ProbedDuration(answer))
             ELSE IF CaughtByFallback(ProbedDuration(answer).type)
             THEN pc' = "gd_fallback" /\ UNCHANGED <<stack, ret, result>>
             ELSE Raise(ProbedDuration(answer).type)
    /\ UNCHANGED <<envVars, taLocals, saLocals, tsLocals, wLocals, fs, exported>>
    /\ UNCHANGED otherThanProbe

\* lines 193-202: the asset is decoded and measured
GD_Fallback ==
    /\ pc = "gd_fallback"
    /\ calls' = Append(calls, Call("AudioSegment.from_file", audio_path))
    /\ \/ Return(Ok(audio_len))
       \/ Raise("ValueError")
    /\ UNCHANGED <<envVars, taLocals, saLocals, tsLocals, wLocals, fs, exported, gd_probe>>
    /\ UNCHANGED otherThanProbe

----------------------------------------------------------------------------
(* transcribe_audio, src/src/transcriptions.py *)

\* every extension is let through
IsSupported_Any(p) == TRUE

\* line 74: the extension is in one of the two allow-lists
IsSupported(p) == is_audio_file(p) \/ is_video_file(p)

\* line 93: duration > MAX_AUDIO_LENGTH_MINUTES, both sides in ms
ExceedsMaximum(d, max_minutes) == d > MsOfMinutes(max_minutes)

TA_CheckExists ==
    /\ pc = "ta_start"
    /\ calls' = Append(calls, Call("os.path.exists", audio_path))
    /\ IF audio_path \notin fs
       THEN Raise("FileNotFoundError")
       ELSE pc' = "ta_classify" /\ UNCHANGED <<stack, ret, result>>
    /\ UNCHANGED <<envVars, taLocals, saLocals, tsLocals, wLocals, fs, exported>>
    /\ UNCHANGED otherThanPipe

TA_Classify ==
    /\ pc = "ta_classify"
    /\ calls' = Append(calls, Call("classify", audio_path))
    /\ IF ~IsSupported(audio_path)
       THEN Raise("ValueError")
       ELSE IF is_video_file(audio_path)
       THEN /\ pc' = "cv_start"
            /\ stack' = <<"ta_after_convert">> \o stack
            /\ UNCHANGED <<ret, result>>
       ELSE /\ pc' = "ta_probe"
            /\ UNCHANGED <<stack, ret, result>>
    /\ UNCHANGED <<envVars, taLocals, saLocals, tsLocals, wLocals, fs, exported>>
    /\ UNCHANGED otherThanPipe

\* the path of the converted audio is dropped: the video itself is processed
TA_AfterConvert_KeepsVideo ==
    /\ pc = "ta_after_convert"
    /\ IF ret.kind = "exc"
       THEN Raise(ret.type)
       ELSE pc' = "ta_probe" /\ UNCHANGED <<stack, ret, result>>
    /\ UNCHANGED <<envVars, taLocals, saLocals, tsLocals, wLocals, fs, exported, calls>>
    /\ UNCHANGED otherThanPipe

TA_AfterConvert ==
    /\ pc = "ta_after_convert"
    /\ IF ret.kind = "exc"
       THEN Raise(ret.type) /\ UNCHANGED audio_path
       ELSE /\ audio_path' = ret.value
            /\ pc' = "ta_probe"
            /\ UNCHANGED <<stack, ret, result>>
    /\ UNCHANGED <<envVars, in_path, duration, saLocals, tsLocals, wLocals, fs,
                   exported, calls>>
    /\ UNCHANGED otherThanPipe

TA_Probe ==
    /\ pc = "ta_probe"
    /\ pc' = "gd_start"
    /\ stack' = <<"ta_after_probe">> \o stack
    /\ UNCHANGED <<ret, result, envVars, taLocals, saLocals, tsLocals, wLocals, fs,
                   exported, calls>>
    /\ UNCHANGED otherThanPipe

TA_AfterProbe ==
    /\ pc = "ta_after_probe"
    /\ IF ret.kind = "exc"
       THEN /\ Raise(ret.type)
            /\ UNCHANGED <<duration, sa_path, max_length_minutes, w_path>>
       ELSE /\ duration' = ret.value
            /\ IF ExceedsMaximum(ret.value, cfg_max)
               THEN /\ sa_path' = audio_path
                    /\ max_length_minutes' = cfg_max
                    /\ pc' = "sa_start"
                    /\ stack' = <<"ta_after_split">> \o stack
                    /\ UNCHANGED <<ret, result, w_path>>
               ELSE /\ w_path' = audio_path
                    /\ pc' = "w_open"
                    /\ stack' = <<"ta_after_whisper">> \o stack
                    /\ UNCHANGED <<ret, result, sa_path, max_length_minutes>>
    /\ UNCHANGED <<envVars, in_path, audio_path, max_length_ms, total_segments, i,
                   sa_segments, tsLocals, inflight, answers, fs, exported, calls>>
    /\ UNCHANGED otherThanPipe

TA_AfterSplit ==
    /\ pc = "ta_after_split"
    /\ IF ret.kind = "exc"
       THEN Raise(ret.type) /\ UNCHANGED segments
       ELSE /\ segments' = ret.value
            /\ pc' = "ts_start"
            /\ stack' = <<"ta_return_segments">> \o stack
            /\ UNCHANGED <<ret, result>>
    /\ UNCHANGED <<envVars, taLocals, saLocals, transcriptions, idx, wLocals, fs,
                   exported, calls>>
    /\ UNCHANGED otherThanPipe

TA_ReturnSegments ==
    /\ pc = "ta_return_segments"
    /\ Return(ret)
    /\ UNCHANGED <<envVars, taLocals, saLocals, tsLocals, wLocals, fs, exported, calls>>
    /\ UNCHANGED otherThanPipe

\* lines 99-105: the text is returned, an exception is logged and raised again
TA_AfterWhisper ==
    /\ pc = "ta_after_whisper"
    /\ IF ret.kind = "exc" THEN Raise(ret.type) ELSE Return(Ok(ret.value))
    /\ UNCHANGED <<envVars, taLocals, saLocals, tsLocals, wLocals, fs, exported, calls>>
    /\ UNCHANGED otherThanPipe

----------------------------------------------------------------------------
(* Token and cost estimation, src/src/token_cost.py.  Prices are per 1000   *)
(* tokens in units of 10^-4 dollars, so a cost is in units of 10^-7        *)
(* dollars and stays an integer.                                           *)

PricedModels == {"gpt-4", "gpt-3.5-turbo"}

MODEL_PRICES ==
    [m \in PricedModels |->
        IF m = "gpt-4" THEN [input |-> 300, output |-> 600]
                       ELSE [input |-> 15, output |-> 20]]

\* model names the functions are called with
ModelNames == {"gpt-4", "gpt-3.5-turbo", "text-davinci-003", "modelo-invalido"}

\* an unknown model gets a default encoding
HasTokenizer_Default(m) == TRUE

\* encoding_for_model raises KeyError for a model it does not know
HasTokenizer(m) == m \in registry

\* line 70: the model has a pricing entry
HasPrice(m) == m \in DOMAIN MODEL_PRICES

\* the output ceiling is left out of the estimate
Cost_InputOnly(tokens, max_output_tokens, prices) == tokens * prices.input

\* lines 79-82, times 10^7
Cost(tokens, max_output_tokens, prices) ==
    tokens * prices.input + max_output_tokens * prices.output

GTC_Count ==
    /\ pc = "gtc_start"
    /\ calls' = Append(calls, Call("tiktoken.encoding_for_model", tk_model))
    /\ IF ~HasTokenizer(tk_model)
       THEN Raise("ValueError")
       ELSE \E n \in 0..MaxInputTokens : Return(Ok(n))
    /\ UNCHANGED <<entry, pipeLocals, llmVars>>

CTC_Start ==
    /\ pc = "ctc_start"
    /\ IF ~HasPrice(tk_model)
       THEN Raise("ValueError")
       ELSE /\ pc' = "gtc_start"
            /\ stack' = <<"ctc_after_count">> \o stack
            /\ UNCHANGED <<ret, result>>
    /\ UNCHANGED <<entry, calls, pipeLocals, llmVars>>

CTC_AfterCount ==
    /\ pc = "ctc_after_count"
    /\ IF ret.kind = "exc"
       THEN Raise(ret.type) /\ UNCHANGED input_tokens
       ELSE /\ input_tokens' = ret.value
            /\ Return(Ok(Cost(ret.value, tk_max, MODEL_PRICES[tk_model])))
    /\ UNCHANGED <<entry, calls, pipeLocals, cfg_model, registry, prompt,
                   system_prompt, max_tokens, tk_model, tk_max, chat_response>>

----------------------------------------------------------------------------
(* chat_completion, get_completion_text, generate_summary, src/src/llm.py *)

SPACE == " "

\* the fixed persona of generate_summary
SummaryPersona == "summary-persona"

\* lines 67-70: the message list
Messages(sys, user) ==
    (IF sys # "" THEN <<[role |-> "system", content |-> sys]>> ELSE <<>>)
    \o <<[role |-> "user", content |-> user]>>

NoResponse == [shape |-> "none", content |-> <<>>]

\* what the chat backend does with a request
ChatAnswers == {[shape |-> "content", content |-> t] :
                    t \in {<<"s">>, <<SPACE, "s", NL>>, <<>>}}
               \cup {[shape |-> "no_content", content |-> <<>>],
                     [shape |-> "raises", content |-> <<>>]}

IsSpace(c) == c \in {SPACE, NL}

RECURSIVE LStrip(_)
LStrip(t) == IF t # <<>> /\ IsSpace(Head(t)) THEN LStrip(Tail(t)) ELSE t

RECURSIVE RStrip(_)
RStrip(t) ==
    IF t # <<>> /\ IsSpace(t[Len(t)]) THEN RStrip(SubSeq(t, 1, Len(t) - 1)) ELSE t

\* str.strip()
Strip(t) == RStrip(LStrip(t))

\* line 99: response['choices'][0]['message']['content'].strip()
get_completion_text(response) ==
    IF response.shape = "content" THEN Ok(Strip(response.content)) ELSE Exc("KeyError")

\* f"Por favor, resume el siguiente texto de una reunión:\n\n{text}"
SummaryPrompt(text) == <<"P", NL, NL>> \o text

CC_Start ==
    /\ pc = "cc_start"
    /\ tk_model' = cfg_model
    /\ tk_max' = max_tokens
    /\ pc' = "ctc_start"
    /\ stack' = <<"cc_after_cost">> \o stack
    /\ calls' = Append(calls, Call("calculate_token_cost", prompt))
    /\ UNCHANGED <<entry, ret, result, pipeLocals, cfg_model, registry, prompt,
                   system_prompt, max_tokens, input_tokens, chat_response>>

\* lines 74-87: an exception of the estimate is caught by the handler of the request
CC_AfterCost ==
    /\ pc = "cc_after_cost"
    /\ IF ret.kind = "exc"
       THEN Raise("OpenAIError") /\ UNCHANGED calls
       ELSE /\ calls' = Append(calls, Call("openai.ChatCompletion.create",
                    [model |-> cfg_model, messages |-> Messages(system_prompt, prompt),
                     max_tokens |-> max_tokens, n |-> 1]))
            /\ pc' = "cc_wait"
            /\ UNCHANGED <<stack, ret, result>>
    /\ UNCHANGED <<entry, pipeLocals, llmVars>>

CC_Response ==
    /\ pc = "cc_wait"
    /\ \E a \in ChatAnswers :
          /\ chat_response' = a
          /\ IF a.shape = "raises" THEN Raise("OpenAIError") ELSE Return(Ok(a))
    /\ UNCHANGED <<entry, calls, pipeLocals, cfg_model, registry, prompt, system_prompt,
                   max_tokens, tk_model, tk_max, input_tokens>>

\* get_completion_text called directly
GCT_Extract ==
    /\ pc = "gct_start"
    /\ Return(get_completion_text(chat_response))
    /\ UNCHANGED <<entry, calls, pipeLocals, llmVars>>

GS_Start ==
    /\ pc = "gs_start"
    /\ system_prompt' = SummaryPersona
    /\ prompt' = SummaryPrompt(prompt)
    /\ max_tokens' = DEFAULT_MAX_TOKENS
    /\ pc' = "cc_start"
    /\ stack' = <<"gs_after_chat">> \o stack
    /\ UNCHANGED <<entry, ret, result, calls, pipeLocals, cfg_model, registry,
                   tk_model, tk_max, input_tokens, chat_response>>

GS_AfterChat ==
    /\ pc = "gs_after_chat"
    /\ IF ret.kind = "exc" \/ get_completion_text(ret.value).kind = "exc"
       THEN Raise("OpenAIError")
       ELSE Return(get_completion_text(ret.value))
    /\ UNCHANGED <<entry, calls, pipeLocals, llmVars>>

----------------------------------------------------------------------------
(* Text files: open(path, "w", encoding="utf-8") and open(path, "r",        *)
(* encoding="utf-8"), as save_transcription, open_transcription and main   *)
(* use them.  A file holds a sequence of bytes.                            *)

CR == "\r"

\* a character outside ASCII, and the two bytes UTF-8 gives it
ENYE == "n~"

ENYE_BYTES == <<"0xC3", "0xB1">>

RECURSIVE WriteTranslate(_, _)
\* text mode, newline=None, on writing: "\n" becomes os.linesep
WriteTranslate(t, sep) ==
    IF t = <<>> THEN <<>>
    ELSE (IF Head(t) = NL THEN sep ELSE <<Head(t)>>) \o WriteTranslate(Tail(t), sep)

RECURSIVE ReadTranslate(_)
\* text mode, newline=None, on reading: "\r\n" and "\r" become "\n"
ReadTranslate(t) ==
    IF t = <<>> THEN <<>>
    ELSE IF Head(t) = CR
    THEN <<NL>> \o ReadTranslate(IF Len(t) > 1 /\ t[2] = NL THEN Tail(Tail(t)) ELSE Tail(t))
    ELSE <<Head(t)>> \o ReadTranslate(Tail(t))

RECURSIVE Utf8Encode(_)
Utf8Encode(t) ==
    IF t = <<>> THEN <<>>
    ELSE (IF Head(t) = ENYE THEN ENYE_BYTES ELSE <<Head(t)>>) \o Utf8Encode(Tail(t))

RECURSIVE Utf8Decode(_)
Utf8Decode(b) ==
    IF b = <<>> THEN <<>>
    ELSE IF Len(b) > 1 /\ SubSeq(b, 1, 2) = ENYE_BYTES
    THEN <<ENYE>> \o Utf8Decode(Tail(Tail(b)))
    ELSE <<Head(b)>> \o Utf8Decode(Tail(b))

\* f.write(text): the bytes that reach the file
FileBytes(text, sep) == Utf8Encode(WriteTranslate(text, sep))

\* f.read(): the text read from the bytes of a file
FileText(bytes) == ReadTranslate(Utf8Decode(bytes))

\* the files after path was opened for writing and data written to it
Written(files, path, data) ==
    {f \in files : f.path # path} \cup {[path |-> path, data |-> data]}

Exists(files, path) == \E f \in files : f.path = path

DataOf(files, path) == (CHOOSE f \in files : f.path = path).data

\* Path.mkdir(parents=True, exist_ok=True): the directory and its ancestors
WithParents(d) == {SubSeq(d, 1, n) : n \in 1..Len(d)}

NoTextPath == [dir |-> <<>>, stem |-> "", suffix |-> ""]

ioFrame == <<entry, calls, innerVars, llmVars, mainVars, concVars>>

\* save_transcription, save_translation, src/src/transcriptions.py lines 162-184
SV_Save ==
    /\ pc = "sv_start"
    /\ dirs' = dirs \cup WithParents(io_path.dir)
    /\ textfiles' = Written(textfiles, io_path, FileBytes(io_text, linesep))
    /\ Return(None)
    /\ UNCHANGED <<ioFrame, io_text, io_path, linesep>>

\* open_transcription, open_translation, lines 186-222
OP_Open ==
    /\ pc = "op_start"
    /\ IF ~Exists(textfiles, io_path)
       THEN Raise("FileNotFoundError")
       ELSE Return(Ok(FileText(DataOf(textfiles, io_path))))
    /\ UNCHANGED <<ioFrame, ioVars>>

\* src/tests/test_transcriptions.py lines 39-61: the text is saved ...
RT_Save ==
    /\ pc = "rt_start"
    /\ pc' = "sv_start"
    /\ stack' = <<"rt_open">> \o stack
    /\ UNCHANGED <<ret, result, ioFrame, ioVars>>

\* ... and then read from the same path
RT_Open ==
    /\ pc = "rt_open"
    /\ pc' = "op_start"
    /\ UNCHANGED <<stack, ret, result, ioFrame, ioVars>>

----------------------------------------------------------------------------
(* main, src/meeting_assistant.py *)

ExitStatus(code) == [kind |-> "exit", type |-> "", value |-> code]

\* sys.exit(code), or the return of main for code 0
Exit(code) ==
    /\ pc' = "done"
    /\ result' = ExitStatus(code)
    /\ UNCHANGED <<stack, ret>>

\* the run goes on without a key
HasApiKey_Unchecked(present) == TRUE

\* line 47: config.get('OPENAI_API_KEY') is set
HasApiKey(present) == present

\* OUTPUT_DIR / f"{base_name}_transcripcion.txt"
TranscriptPath(p) ==
    [dir |-> <<OUTPUT_DIR>>, stem |-> p.stem \o "_transcripcion", suffix |-> ".txt"]

\* OUTPUT_DIR / f"{base_name}_resumen.txt"
SummaryPath(p) ==
    [dir |-> <<OUTPUT_DIR>>, stem |-> p.stem \o "_resumen", suffix |-> ".txt"]

mainFrame == <<entry, calls, innerVars, concVars>>

\* lines 29-34
M_Args ==
    /\ pc = "m_start"
    /\ IF argc # 2
       THEN Exit(1)
       ELSE pc' = "m_ffmpeg" /\ UNCHANGED <<stack, ret, result>>
    /\ UNCHANGED <<mainFrame, llmVars, outerVars>>

\* lines 37-43
M_CheckFfmpeg ==
    /\ pc = "m_ffmpeg"
    /\ IF ~ffmpeg_installed
       THEN Exit(1)
       ELSE pc' = "m_config" /\ UNCHANGED <<stack, ret, result>>
    /\ UNCHANGED <<mainFrame, llmVars, outerVars>>

\* lines 46-50
M_LoadConfig ==
    /\ pc = "m_config"
    /\ IF ~HasApiKey(api_key)
       THEN Exit(1)
       ELSE pc' = "m_exists" /\ UNCHANGED <<stack, ret, result>>
    /\ UNCHANGED <<mainFrame, llmVars, outerVars>>

\* lines 52-55
M_Exists ==
    /\ pc = "m_exists"
    /\ IF in_path \notin fs
       THEN Exit(1)
       ELSE pc' = "m_classify" /\ UNCHANGED <<stack, ret, result>>
    /\ UNCHANGED <<mainFrame, llmVars, outerVars>>

\* lines 59-83: SystemExit passes the handler of line 115; else the output
\* directory is made and transcribe_audio called
M_Classify ==
    /\ pc = "m_classify"
    /\ IF ~(is_audio_file(in_path) \/ is_video_file(in_path))
       THEN Exit(1) /\ UNCHANGED dirs
       ELSE /\ dirs' = dirs \cup WithParents(<<OUTPUT_DIR>>)
            /\ pc' = "ta_start"
            /\ stack' = <<"m_after_transcribe">> \o stack
            /\ UNCHANGED <<ret, result>>
    /\ UNCHANGED <<mainFrame, llmVars, mainVars, io_text, io_path, textfiles, linesep>>

\* the transcript is written as soon as it is there, before the summary is asked for
M_AfterTranscribe_SavesFirst ==
    /\ pc = "m_after_transcribe"
    /\ IF ret.kind = "exc"
       THEN Exit(1) /\ UNCHANGED <<transcription, prompt, textfiles>>
       ELSE /\ transcription' = ret.value
            /\ prompt' = ret.value
            /\ textfiles' = Written(textfiles, TranscriptPath(in_path),
                                    FileBytes(ret.value, linesep))
            /\ pc' = "gs_start"
            /\ stack' = <<"m_after_summary">> \o stack
            /\ UNCHANGED <<ret, result>>
    /\ UNCHANGED <<mainFrame, cfg_model, registry, system_prompt, max_tokens, tk_model,
                   tk_max, input_tokens, chat_response, argc, ffmpeg_installed, api_key,
                   summary, io_text, io_path, dirs, linesep>>

\* lines 83-92 and 115-118
M_AfterTranscribe ==
    /\ pc = "m_after_transcribe"
    /\ IF ret.kind = "exc"
       THEN Exit(1) /\ UNCHANGED <<transcription, prompt>>
       ELSE /\ transcription' = ret.value
            /\ prompt' = ret.value
            /\ pc' = "gs_start"
            /\ stack' = <<"m_after_summary">> \o stack
            /\ UNCHANGED <<ret, result>>
    /\ UNCHANGED <<mainFrame, cfg_model, registry, system_prompt, max_tokens, tk_model,
                   tk_max, input_tokens, chat_response, argc, ffmpeg_installed, api_key,
                   summary, ioVars>>

\* lines 92-97 and 115-118
M_AfterSummary ==
    /\ pc = "m_after_summary"
    /\ IF ret.kind = "exc"
       THEN Exit(1) /\ UNCHANGED summary
       ELSE /\ summary' = ret.value
            /\ pc' = "m_save_transcription"
            /\ UNCHANGED <<stack, ret, result>>
    /\ UNCHANGED <<mainFrame, llmVars, argc, ffmpeg_installed, api_key, transcription,
                   ioVars>>

\* lines 100-102: the file is written, or open() or write() raises
M_SaveTranscription ==
    /\ pc = "m_save_transcription"
    /\ \/ /\ textfiles' = Written(textfiles, TranscriptPath(in_path),
                                  FileBytes(transcription, linesep))
          /\ pc' = "m_save_summary"
          /\ UNCHANGED <<stack, ret, result>>
       \/ Exit(1) /\ UNCHANGED textfiles
    /\ UNCHANGED <<mainFrame, llmVars, mainVars, io_text, io_path, dirs, linesep>>

\* lines 104-113: the file is written and main returns, or open() or write() raises
M_SaveSummary ==
    /\ pc = "m_save_summary"
    /\ \/ /\ textfiles' = Written(textfiles, SummaryPath(in_path),
                                  FileBytes(summary, linesep))
          /\ Exit(0)
       \/ Exit(1) /\ UNCHANGED textfiles
    /\ UNCHANGED <<mainFrame, llmVars, mainVars, io_text, io_path, dirs, linesep>>

----------------------------------------------------------------------------
(* Two runs of transcribe_audio side by side, each on its own input: the    *)
(* steps of a run that write or read scratch files in OUTPUT_DIR.  A run   *)
(* is [input, audio, n, k, at]: its input, the audio it works on, the      *)
(* number of segments of its asset (0: not split), the segments done in    *)
(* the current loop and its position.                                      *)

RunIds == {1, 2}

\* the last writer of a scratch file, 0 when nobody wrote it
WriterOf(path) ==
    IF \E f \in scratch : f.path = path
    THEN (CHOOSE f \in scratch : f.path = path).writer
    ELSE 0

\* run r writes the scratch file path
WriteScratch(r, path) ==
    /\ scratch' = {f \in scratch : f.path # path} \cup {[path |-> path, writer |-> r]}
    /\ writes' = writes \cup {[path |-> path, by |-> r]}

\* what the steps of the two runs leave alone
runsFrame == <<pipeVars, llmVars, mainVars, ioVars>>

\* transcriptions.py lines 82-88, audio_divide.py lines 44-46: a video is
\* converted into OUTPUT_DIR / <stem>_audio.mp3, an audio is used as it is
R_Start(r) ==
    /\ runs[r].at = "start"
    /\ IF is_video_file(runs[r].input)
       THEN /\ WriteScratch(r, ConvertedPath(runs[r].input))
            /\ runs' = [runs EXCEPT ![r].audio = ConvertedPath(runs[r].input),
                                    ![r].at = "split"]
       ELSE /\ runs' = [runs EXCEPT ![r].audio = runs[r].input, ![r].at = "split"]
            /\ UNCHANGED <<scratch, writes>>
    /\ UNCHANGED <<reads, runsFrame>>

\* audio_divide.py lines 148-161: the next segment is exported, or the loop ends
R_Export(r) ==
    /\ runs[r].at = "split"
    /\ IF runs[r].k < runs[r].n
       THEN /\ WriteScratch(r, SegmentPath(runs[r].audio, runs[r].k + 1))
            /\ runs' = [runs EXCEPT ![r].k = runs[r].k + 1]
       ELSE /\ runs' = [runs EXCEPT ![r].k = 0, ![r].at = "transcribe"]
            /\ UNCHANGED <<scratch, writes>>
    /\ UNCHANGED <<reads, runsFrame>>

\* transcriptions.py lines 146-156: the next segment file is opened and sent,
\* or the loop ends
R_Transcribe(r) ==
    /\ runs[r].at = "transcribe"
    /\ IF runs[r].k < runs[r].n
       THEN /\ reads' = reads \cup
                    {[path |-> SegmentPath(runs[r].audio, runs[r].k + 1), by |-> r,
                      from |-> WriterOf(SegmentPath(runs[r].audio, runs[r].k + 1))]}
            /\ runs' = [runs EXCEPT ![r].k = runs[r].k + 1]
       ELSE /\ runs' = [runs EXCEPT ![r].at = "done"]
            /\ UNCHANGED reads
    /\ UNCHANGED <<scratch, writes, runsFrame>>

\* inputs of the two runs
RunInputs == {[dir |-> d, stem |-> "m", suffix |-> ".mp3"] : d \in {"in", "in2"}}
             \cup {[dir |-> "in", stem |-> t, suffix |-> x] :
                      t \in {"m", "n"}, x \in {".mp3", ".mp4"}}

\* segments of an asset: none when it fits the window, else at least two
SegmentCounts == {0} \cup 2..MaxSegments

NewRun(p, n) == [input |-> p, audio |-> NoPath, n |-> n, k |-> 0, at |-> "start"]

NextRuns ==
    \/ \E r \in RunIds : R_Start(r)
    \/ \E r \in RunIds : R_Export(r)
    \/ \E r \in RunIds : R_Transcribe(r)

----------------------------------------------------------------------------
(* The calls the pipeline is entered with. *)

PipeEntries == {"transcribe_audio", "_transcribe_segments",
                "process_audio_segments", "split_audio", "convert_to_audio",
                "get_audio_duration", "transcribe_with_whisper"}

InputSuffixes == {".mp3", ".MP4", ".xyz"}

InputPaths == {[dir |-> "in", stem |-> "m", suffix |-> s] : s \in InputSuffixes}

\* values of the MAX_AUDIO_LENGTH_MINUTES setting
ConfigMaxMinutes == {DEFAULT_MAX_AUDIO_LENGTH_MINUTES, 1, 0, -1}

\* transcribe_audio: lengths of the asset, around the multiples of half a window
AssetLengths(m) ==
    IF m > 0
    THEN {n \in {h * (MsOfMinutes(m) \div 2) + e : h \in 0..MaxHalfWindows, e \in {-1, 0, 1}} :
              n >= 0}
    ELSE {0, 1, 60000}

\* split_audio called directly: window sizes, in minutes
SplitMinutes == {-1, 0, 1, 2, DEFAULT_MAX_AUDIO_LENGTH_MINUTES}

\* split_audio called directly: lengths tried with every window, in ms
SplitLengths == {0, 1, 59999, 60000, 60001, 120000, 600000, 600001}

\* lengths of 25, 120 and 125 minutes, tried with the default window
LongLengths == {MsOfMinutes(25), MsOfMinutes(120), MsOfMinutes(125)}

\* split_audio called directly: the pairs <<max_length_minutes, len(audio)>>
SplitInputs ==
    (SplitMinutes \X SplitLengths)
    \cup ({DEFAULT_MAX_AUDIO_LENGTH_MINUTES} \X LongLengths)

SegmentFiles == {[dir |-> "in", stem |-> "seg1", suffix |-> ".mp3"],
                 [dir |-> "in", stem |-> "seg2", suffix |-> ".mp3"]}

RECURSIVE ListsUpTo(_, _)
\* the lists over S of length at most n
ListsUpTo(S, n) ==
    IF n = 0 THEN {<<>>}
    ELSE LET shorter == ListsUpTo(S, n - 1)
         IN  shorter \cup {Append(l, x) : l \in {m \in shorter : Len(m) = n - 1}, x \in S}

InitCommon ==
    /\ stack = <<>>
    /\ ret = None
    /\ result = None
    /\ calls = <<>>
    /\ duration = 0
    /\ max_length_ms = 0
    /\ total_segments = 0
    /\ i = 0
    /\ sa_segments = <<>>
    /\ exported = <<>>
    /\ transcriptions = <<>>
    /\ idx = 0
    /\ w_path = IF entry = "transcribe_with_whisper" THEN Head(segments) ELSE NoPath
    /\ inflight = 0
    /\ answers = <<>>
    /\ input_tokens = 0
    /\ cv_probe = NoProbe
    /\ process = "none"
    /\ cv_output = "none"
    /\ gd_probe = NoProbe

InitTranscribeAudio ==
    /\ entry = "transcribe_audio"
    /\ pc = "ta_start"
    /\ in_path \in InputPaths
    /\ audio_path = in_path
    /\ fs \in {{}, {in_path}}
    /\ cfg_max \in ConfigMaxMinutes
    /\ audio_len \in AssetLengths(cfg_max)
    /\ sa_path = NoPath
    /\ max_length_minutes = 0
    /\ segments = <<>>

InitSegmentLoop ==
    /\ entry \in {"_transcribe_segments", "process_audio_segments"}
    /\ pc = IF entry = "_transcribe_segments" THEN "ts_start" ELSE "pas_start"
    /\ segments \in ListsUpTo(SegmentFiles, MaxSegments)
    /\ fs \in {SegmentFiles, {s \in SegmentFiles : s.stem = "seg1"}}
    /\ in_path = NoPath
    /\ audio_path = NoPath
    /\ cfg_max = DEFAULT_MAX_AUDIO_LENGTH_MINUTES
    /\ audio_len = 0
    /\ sa_path = NoPath
    /\ max_length_minutes = 0

InitSplitAudio ==
    /\ entry = "split_audio"
    /\ pc = "sa_start"
    /\ sa_path = [dir |-> "in", stem |-> "m", suffix |-> ".mp3"]
    /\ fs \in {{}, {sa_path}}
    /\ \E input \in SplitInputs :
          /\ max_length_minutes = input[1]
          /\ audio_len = input[2]
    /\ in_path = NoPath
    /\ audio_path = NoPath
    /\ cfg_max = DEFAULT_MAX_AUDIO_LENGTH_MINUTES
    /\ segments = <<>>

\* transcribe_with_whisper called directly, with the first of the segment files
InitWhisper ==
    /\ entry = "transcribe_with_whisper"
    /\ pc = "w_open"
    /\ segments \in {<<f>> : f \in {g \in SegmentFiles : g.stem = "seg1"}}
    /\ fs \in {{}, SegmentFiles}
    /\ in_path = NoPath
    /\ audio_path = NoPath
    /\ cfg_max = DEFAULT_MAX_AUDIO_LENGTH_MINUTES
    /\ audio_len = 0
    /\ sa_path = NoPath
    /\ max_length_minutes = 0

\* decoded lengths of the asset convert_to_audio and get_audio_duration are called with, in ms
MediaLengths == {0, 1000}

InitConvert ==
    /\ entry \in {"convert_to_audio", "get_audio_duration"}
    /\ pc = IF entry = "convert_to_audio" THEN "cv_start" ELSE "gd_start"
    /\ audio_path = [dir |-> "in", stem |-> "m",
                     suffix |-> IF entry = "convert_to_audio" THEN ".mp4" ELSE ".mp3"]
    /\ fs \in {{}, {audio_path}}
    /\ audio_len \in MediaLengths
    /\ in_path = NoPath
    /\ cfg_max = DEFAULT_MAX_AUDIO_LENGTH_MINUTES
    /\ sa_path = NoPath
    /\ max_length_minutes = 0
    /\ segments = <<>>

\* the pipeline functions: the language-model settings are the defaults
InitPipe ==
    /\ \/ InitTranscribeAudio
       \/ InitSegmentLoop
       \/ InitSplitAudio
       \/ InitConvert
       \/ InitWhisper
    /\ cfg_model = "gpt-3.5-turbo"
    /\ registry = ModelNames \ {"modelo-invalido"}
    /\ prompt = <<>>
    /\ system_prompt = ""
    /\ max_tokens = DEFAULT_MAX_TOKENS
    /\ tk_model = cfg_model
    /\ tk_max = 0
    /\ chat_response = NoResponse

LLMEntries == {"chat_completion", "generate_summary", "calculate_token_cost",
               "get_token_count", "get_completion_text"}

\* tiktoken registries: the current one, and one that predates gpt-4
Registries == {ModelNames \ {"modelo-invalido"},
               ModelNames \ {"modelo-invalido", "gpt-4"}}

\* calculate_token_cost called directly: values of max_output_tokens
OutputCeilings == {0, 100, DEFAULT_MAX_TOKENS}

InitLLM ==
    /\ entry \in LLMEntries
    /\ pc = CASE entry = "chat_completion" -> "cc_start"
              [] entry = "generate_summary" -> "gs_start"
              [] entry = "calculate_token_cost" -> "ctc_start"
              [] entry = "get_completion_text" -> "gct_start"
              [] OTHER -> "gtc_start"
    /\ cfg_model \in IF entry = "get_completion_text" THEN {"gpt-3.5-turbo"} ELSE ModelNames
    /\ registry \in IF entry = "get_completion_text" THEN {ModelNames \ {"modelo-invalido"}}
                                                      ELSE Registries
    /\ prompt \in IF entry = "get_completion_text" THEN {<<>>} ELSE Texts
    /\ chat_response \in IF entry = "get_completion_text"
                     THEN {a \in ChatAnswers : a.shape # "raises"} ELSE {NoResponse}
    /\ system_prompt \in IF entry = "chat_completion" THEN {"", "sys"} ELSE {""}
    /\ max_tokens \in IF entry = "chat_completion" THEN {DEFAULT_MAX_TOKENS, 100}
                                                  ELSE {DEFAULT_MAX_TOKENS}
    /\ tk_model \in IF entry \in {"calculate_token_cost", "get_token_count"}
                    THEN ModelNames ELSE {cfg_model}
    /\ tk_max \in IF entry = "calculate_token_cost" THEN OutputCeilings ELSE {0}
    /\ fs = {}
    /\ in_path = NoPath
    /\ audio_path = NoPath
    /\ cfg_max = DEFAULT_MAX_AUDIO_LENGTH_MINUTES
    /\ audio_len = 0
    /\ sa_path = NoPath
    /\ max_length_minutes = 0
    /\ segments = <<>>

\* no runs side by side
NoRuns ==
    /\ runs = <<>>
    /\ scratch = {}
    /\ writes = {}
    /\ reads = {}

\* main and the text-file functions have not run
OuterDefaults ==
    /\ argc = 0
    /\ ffmpeg_installed = TRUE
    /\ api_key = TRUE
    /\ transcription = <<>>
    /\ summary = <<>>
    /\ io_text = <<>>
    /\ io_path = NoTextPath
    /\ dirs = {}
    /\ textfiles = {}
    /\ linesep = <<NL>>
    /\ NoRuns

\* lengths of the asset main is run on: within the default window, and two windows
MainLengths == {MsOfMinutes(5), MsOfMinutes(15)}

InitMain ==
    /\ entry = "main"
    /\ pc = "m_start"
    /\ argc \in {1, 2, 3}
    /\ ffmpeg_installed \in BOOLEAN
    /\ api_key \in BOOLEAN
    /\ in_path \in InputPaths
    /\ audio_path = in_path
    /\ fs \in {{}, {in_path}}
    /\ cfg_max = DEFAULT_MAX_AUDIO_LENGTH_MINUTES
    /\ audio_len \in MainLengths
    /\ sa_path = NoPath
    /\ max_length_minutes = 0
    /\ segments = <<>>
    /\ cfg_model \in {"gpt-3.5-turbo", "modelo-invalido"}
    /\ registry = ModelNames \ {"modelo-invalido"}
    /\ prompt = <<>>
    /\ system_prompt = ""
    /\ max_tokens = DEFAULT_MAX_TOKENS
    /\ tk_model = cfg_model
    /\ tk_max = 0
    /\ chat_response = NoResponse
    /\ transcription = <<>>
    /\ summary = <<>>
    /\ io_text = <<>>
    /\ io_path = NoTextPath
    /\ dirs = {}
    /\ textfiles = {}
    /\ linesep = <<NL>>
    /\ NoRuns

SaveAndOpenEntries == {"save_and_open_transcription", "save_and_open_translation"}

OpenEntries == {"open_transcription", "open_translation"}

\* texts saved: plain, joined fragments, backend text with its own line ends
IOTexts == {<<>>, <<"a">>, JoinFragments(<<<<"a">>, <<>>, <<"b">>>>),
            <<"a", CR, NL, "b">>, <<ENYE, CR>>}

IOPaths == {[dir |-> d, stem |-> "t", suffix |-> ".txt"] :
                d \in {<<"tmp">>, <<"tmp", "nested", "path">>}}

InitIO ==
    /\ entry \in SaveAndOpenEntries \cup OpenEntries
    /\ pc = IF entry \in OpenEntries THEN "op_start" ELSE "rt_start"
    /\ io_text \in IF entry \in OpenEntries THEN {<<"a">>} ELSE IOTexts
    /\ io_path \in IOPaths
    /\ linesep \in {<<NL>>, <<CR, NL>>}
    /\ dirs = {<<"tmp">>}
    /\ textfiles \in IF entry \in OpenEntries
                     THEN {{}, {[path |-> [dir |-> <<"tmp">>, stem |-> "t", suffix |-> ".txt"],
                                 data |-> FileBytes(io_text, linesep)]}}
                     ELSE {{}}
    /\ argc = 0
    /\ ffmpeg_installed = TRUE
    /\ api_key = TRUE
    /\ transcription = <<>>
    /\ summary = <<>>
    /\ NoRuns
    /\ fs = {}
    /\ in_path = NoPath
    /\ audio_path = NoPath
    /\ cfg_max = DEFAULT_MAX_AUDIO_LENGTH_MINUTES
    /\ audio_len = 0
    /\ sa_path = NoPath
    /\ max_length_minutes = 0
    /\ segments = <<>>
    /\ cfg_model = "gpt-3.5-turbo"
    /\ registry = ModelNames \ {"modelo-invalido"}
    /\ prompt = <<>>
    /\ system_prompt = ""
    /\ max_tokens = DEFAULT_MAX_TOKENS
    /\ tk_model = cfg_model
    /\ tk_max = 0
    /\ chat_response = NoResponse

Init ==
    /\ \/ InitPipe /\ OuterDefaults
       \/ InitLLM /\ OuterDefaults
       \/ InitMain
       \/ InitIO
    /\ InitCommon

Next ==
    \/ TA_CheckExists
    \/ TA_Classify
    \/ TA_AfterConvert
    \/ TA_Probe
    \/ TA_AfterProbe
    \/ TA_AfterSplit
    \/ TA_ReturnSegments
    \/ TA_AfterWhisper
    \/ CV_Start
    \/ CV_Probe
    \/ CV_Run
    \/ CV_Poll
    \/ CV_Moviepy
    \/ CV_Write
    \/ GD_Start
    \/ GD_Primary
    \/ GD_Fallback
    \/ SA_CheckExists
    \/ SA_Load
    \/ SA_Plan
    \/ SA_Export
    \/ SA_Return
    \/ TS_Start
    \/ TS_Dispatch
    \/ TS_After
    \/ TS_Join
    \/ PAS_Start
    \/ PAS_Dispatch
    \/ PAS_After
    \/ PAS_Return
    \/ W_Open
    \/ W_Response
    \/ GTC_Count
    \/ CTC_Start
    \/ CTC_AfterCount
    \/ CC_Start
    \/ CC_AfterCost
    \/ CC_Response
    \/ GCT_Extract
    \/ GS_Start
    \/ GS_AfterChat
    \/ M_Args
    \/ M_CheckFfmpeg
    \/ M_LoadConfig
    \/ M_Exists
    \/ M_Classify
    \/ M_AfterTranscribe
    \/ M_AfterSummary
    \/ M_SaveTranscription
    \/ M_SaveSummary
    \/ SV_Save
    \/ OP_Open
    \/ RT_Save
    \/ RT_Open

Spec == Init /\ [][Next]_vars

\* two runs on two different inputs; nothing else is running
InitRuns ==
    /\ entry = "two_runs"
    /\ pc = "done"
    /\ \E p1 \in RunInputs, p2 \in RunInputs, n1 \in SegmentCounts, n2 \in SegmentCounts :
          /\ p1 # p2
          /\ runs = <<NewRun(p1, n1), NewRun(p2, n2)>>
    /\ scratch = {}
    /\ writes = {}
    /\ reads = {}
    /\ argc = 0
    /\ ffmpeg_installed = TRUE
    /\ api_key = TRUE
    /\ transcription = <<>>
    /\ summary = <<>>
    /\ io_text = <<>>
    /\ io_path = NoTextPath
    /\ dirs = {}
    /\ textfiles = {}
    /\ linesep = <<NL>>
    /\ fs = {}
    /\ in_path = NoPath
    /\ audio_path = NoPath
    /\ cfg_max = DEFAULT_MAX_AUDIO_LENGTH_MINUTES
    /\ audio_len = 0
    /\ sa_path = NoPath
    /\ max_length_minutes = 0
    /\ segments = <<>>
    /\ cfg_model = "gpt-3.5-turbo"
    /\ registry = ModelNames \ {"modelo-invalido"}
    /\ prompt = <<>>
    /\ system_prompt = ""
    /\ max_tokens = DEFAULT_MAX_TOKENS
    /\ tk_model = cfg_model
    /\ tk_max = 0
    /\ chat_response = NoResponse
    /\ InitCommon

SpecRuns == InitRuns /\ [][NextRuns]_vars

----------------------------------------------------------------------------
(* Properties. *)

LoopEntries == {"_transcribe_segments", "process_audio_segments"}

\* the segment loop has returned, to the outside or to transcribe_audio
LoopReturned ==
    \/ pc = "done" /\ entry \in LoopEntries
    \/ pc = "ta_return_segments"

\* the fragment a call's outcome stands for
ExpectedFragment(a) == IF a.out.kind = "ok" THEN a.out.value ELSE <<>>

CallsTo(f) == SelectSeq(calls, LAMBDA c : c.fn = f)

\* C1: order preservation.  The fragment list has one entry per segment
\* handled, entry k is the text the backend gave for segment k, or the empty
\* text when the call for segment k failed; process_audio_segments returns
\* that list.
C1_OrderPreservation ==
    /\ pc \in {"ts_loop", "pas_loop"} =>
          /\ idx - 1 <= Len(segments)
          /\ Len(transcriptions) = idx - 1
          /\ Len(answers) = idx - 1
    /\ (pc \in {"ts_loop", "pas_loop"} \/ LoopReturned) =>
          \A k \in 1..Len(transcriptions) :
              /\ k <= Len(answers)
              /\ answers[k].path = segments[k]
              /\ transcriptions[k] = ExpectedFragment(answers[k])
    /\ LoopReturned => Len(transcriptions) = Len(segments)
    /\ (pc = "done" /\ entry = "process_audio_segments") => result = Ok(transcriptions)

C1_Witness ==
    /\ pc = "done"
    /\ entry = "process_audio_segments"
    /\ Len(segments) = 3
    /\ answers[1].out = Ok(<<"a">>)
    /\ answers[2].out.kind = "exc"
    /\ answers[3].out = Ok(<<"b", NL, "c">>)
    /\ result.value = <<(<<"a">>), <<>>, <<"b", NL, "c">>>>

\* C2: a failed segment does not end the loop.  When the loop has returned,
\* the dispatcher was called once per segment, in the order of the list, and
\* a request went to the backend for each segment whose file exists.
C2_EverySegmentDispatched ==
    /\ pc \in {"ts_loop", "pas_loop"} => Len(CallsTo("transcribe_with_whisper")) = idx - 1
    /\ LoopReturned =>
          /\ Len(CallsTo("transcribe_with_whisper")) = Len(segments)
          /\ \A k \in 1..Len(segments) :
                CallsTo("transcribe_with_whisper")[k].arg = segments[k]
          /\ [k \in 1..Len(CallsTo("openai.Audio.transcribe")) |->
                    CallsTo("openai.Audio.transcribe")[k].arg]
                = SelectSeq(segments, LAMBDA p : p \in fs)

C2_Witness ==
    /\ pc = "done"
    /\ entry = "_transcribe_segments"
    /\ Len(segments) = 3
    /\ answers[1].out = Exc("OpenAIError")
    /\ answers[2].out = Exc("OpenAIError")
    /\ Len(CallsTo("openai.Audio.transcribe")) = 3

RECURSIVE OffsetOf(_, _)
\* where fragment k starts in the joined text, counting one separator after
\* each earlier fragment
OffsetOf(list, k) ==
    IF k = 1 THEN 0 ELSE OffsetOf(list, k - 1) + Len(list[k - 1]) + 1

\* t is the fragments of list in order with one NL between neighbours
IsJoinOf(t, list) ==
    /\ Len(t) = IF list = <<>> THEN 0
                ELSE OffsetOf(list, Len(list)) + Len(list[Len(list)])
    /\ \A k \in 1..Len(list) :
          /\ SubSeq(t, OffsetOf(list, k) + 1, OffsetOf(list, k) + Len(list[k])) = list[k]
          /\ k < Len(list) => t[OffsetOf(list, k) + Len(list[k]) + 1] = NL

\* C3: the transcript of a segmented run is the fragments in index order with
\* exactly one newline between neighbours; a 25-minute asset with a
\* 10-minute window gives 3 segments of 10, 10 and 5 minutes, and when the
\* call for segment 2 fails the transcript is frag1, two newlines, frag3.
C3_JoinedBySingleNewlines ==
    /\ (pc = "done" /\ entry = "_transcribe_segments") =>
          result.kind = "ok" /\ IsJoinOf(result.value, transcriptions)
    /\ pc = "ta_return_segments" =>
          ret.kind = "ok" /\ IsJoinOf(ret.value, transcriptions)
    /\ ( /\ pc = "done"
         /\ entry = "transcribe_audio"
         /\ result.kind = "ok"
         /\ cfg_max = 10
         /\ audio_len = MsOfMinutes(25) ) =>
          /\ Len(segments) = 3
          /\ Len(answers) = 3
          /\ [k \in 1..3 |-> exported[k].hi - exported[k].lo]
                = <<MsOfMinutes(10), MsOfMinutes(10), MsOfMinutes(5)>>
          /\ answers[2].out.kind = "exc" =>
                result.value = ExpectedFragment(answers[1]) \o <<NL, NL>>
                                   \o ExpectedFragment(answers[3])

C3_Witness ==
    /\ pc = "done"
    /\ entry = "transcribe_audio"
    /\ cfg_max = 10
    /\ audio_len = MsOfMinutes(25)
    /\ Len(answers) = 3
    /\ answers[2].out.kind = "exc"
    /\ result = Ok(<<"a", NL, NL, "b", NL, "c">>)

\* C4: a transcription backend error is never fatal to a transcribe_audio
\* run, on either branch: the run returns a transcript.
C4_BackendErrorNeverFatal ==
    ( /\ pc = "done"
      /\ entry = "transcribe_audio"
      /\ \E k \in 1..Len(answers) : answers[k].out = Exc("OpenAIError") ) =>
        result.kind = "ok"

\* split_audio has returned a list, to the outside or to transcribe_audio
SplitReturned ==
    \/ pc = "done" /\ entry = "split_audio" /\ result.kind = "ok"
    \/ pc = "ta_after_split" /\ ret.kind = "ok"

SplitValue == IF pc = "done" THEN result.value ELSE ret.value

\* n is the ceiling of d / w, for w > 0
IsCeiling(n, d, w) == (n - 1) * w < d /\ d <= n * w

\* C5: segment count.  For a duration D longer than the window W (W > 0),
\* the total announced before the loop and the number of files exported are
\* both ceil(D / W): 120 minutes by 10 gives 12, 125 by 10 gives 13 with a
\* last segment of 5 minutes.
C5_SegmentCount ==
    /\ (pc = "sa_loop" /\ max_length_ms > 0) =>
          IsCeiling(total_segments, audio_len, max_length_ms)
    /\ (SplitReturned /\ max_length_ms > 0 /\ audio_len > max_length_ms) =>
          /\ IsCeiling(Len(exported), audio_len, max_length_ms)
          /\ Len(exported) = total_segments
          /\ Len(SplitValue) = Len(exported)
          /\ (audio_len = MsOfMinutes(120) /\ max_length_minutes = 10) =>
                Len(exported) = 12
          /\ (audio_len = MsOfMinutes(125) /\ max_length_minutes = 10) =>
                /\ Len(exported) = 13
                /\ exported[13].hi - exported[13].lo = MsOfMinutes(5)

C5_Witness ==
    /\ pc = "done"
    /\ entry = "split_audio"
    /\ audio_len = MsOfMinutes(125)
    /\ max_length_minutes = 10
    /\ Len(result.value) = 13

RECURSIVE SumOfLengths(_)
SumOfLengths(files) ==
    IF files = <<>> THEN 0
    ELSE (Head(files).hi - Head(files).lo) + SumOfLengths(Tail(files))

\* C6: the exported segments partition the timeline.  Segment k covers
\* [(k-1)*W, min(k*W, D)), every segment but the last is W long, the last is
\* longer than 0 and at most W, neighbours meet without gap or overlap, and
\* the lengths add up to D.
C6_Partition ==
    /\ (pc = "sa_loop" /\ max_length_ms > 0) =>
          \A k \in 1..Len(exported) :
              /\ exported[k].lo = (k - 1) * max_length_ms
              /\ exported[k].hi = Min(k * max_length_ms, audio_len)
              /\ exported[k].path = sa_segments[k]
    /\ (SplitReturned /\ max_length_ms > 0 /\ audio_len > max_length_ms) =>
          LET n == Len(exported) IN
          /\ n >= 1
          /\ exported[1].lo = 0
          /\ exported[n].hi = audio_len
          /\ \A k \in 1..n :
                /\ exported[k].lo = (k - 1) * max_length_ms
                /\ exported[k].hi = Min(k * max_length_ms, audio_len)
                /\ exported[k].hi - exported[k].lo > 0
                /\ exported[k].hi - exported[k].lo <= max_length_ms
                /\ k < n => /\ exported[k].hi - exported[k].lo = max_length_ms
                            /\ exported[k].hi = exported[k + 1].lo
                /\ SplitValue[k] = exported[k].path
          /\ SumOfLengths(exported) = audio_len

C6_Witness ==
    /\ pc = "done"
    /\ entry = "split_audio"
    /\ result.kind = "ok"
    /\ audio_len = 60001
    /\ max_length_minutes = 1
    /\ Len(exported) = 2
    /\ exported[2].hi - exported[2].lo = 1

\* C7: segmenter fast path.  When the audio is not longer than the window,
\* equal included, split_audio returns the list holding the original path
\* alone and writes no file.
C7_FastPath ==
    /\ ( /\ pc = "done"
         /\ entry = "split_audio"
         /\ audio_len <= MsOfMinutes(max_length_minutes) ) =>
          /\ exported = <<>>
          /\ fs \subseteq {sa_path}
          /\ CallsTo("export") = <<>>
          /\ result.kind = "ok" => result.value = <<sa_path>>
    /\ (pc = "ta_after_split" /\ audio_len <= MsOfMinutes(max_length_minutes)) =>
          /\ exported = <<>>
          /\ fs \subseteq {in_path, ConvertedPath(in_path)}
          /\ CallsTo("export") = <<>>
          /\ ret.kind = "ok" => ret.value = <<sa_path>>

C7_Witness ==
    /\ pc = "done"
    /\ entry = "split_audio"
    /\ audio_len = 60000
    /\ max_length_minutes = 1
    /\ result = Ok(<<sa_path>>)
    /\ fs = {sa_path}

CollaboratorCalls == {"convert_to_audio", "get_audio_duration", "AudioSegment.from_file",
                      "export", "transcribe_with_whisper", "openai.Audio.transcribe"}

\* C8: unsupported format.  For an existing path whose extension is in
\* neither allow-list transcribe_audio raises the unsupported-format error
\* having called neither the normalizer, the prober, the segmenter nor the
\* transcription backend; classification never comes before the existence
\* check.
C8_UnsupportedRejectedFirst ==
    entry = "transcribe_audio" =>
        /\ \A k \in 1..Len(calls) :
              calls[k].fn = "classify" => (k > 1 /\ calls[1].fn = "os.path.exists")
        /\ ( /\ in_path \in fs
             /\ Lower(in_path.suffix) \notin
                    (SUPPORTED_AUDIO_EXTENSIONS \cup SUPPORTED_VIDEO_EXTENSIONS) ) =>
              /\ \A k \in 1..Len(calls) : calls[k].fn \notin CollaboratorCalls
              /\ pc = "done" => result = Exc("ValueError")

C8_Witness ==
    /\ pc = "done"
    /\ entry = "transcribe_audio"
    /\ in_path.suffix = ".xyz"
    /\ in_path \in fs
    /\ result = Exc("ValueError")
    /\ Len(calls) = 2

\* the estimate of chat_completion fails: no price or no tokenizer for the model
EstimateFails == cfg_model \notin PricedModels \/ cfg_model \notin registry

\* C9: a failure of the cost estimate does not block the summarization
\* call: the request is still sent to the chat backend.
C9_EstimateFailureDoesNotBlock ==
    ( /\ pc = "done"
      /\ entry \in {"chat_completion", "generate_summary"}
      /\ EstimateFails ) =>
        CallsTo("openai.ChatCompletion.create") # <<>>

\* C10 as stated: for a model without a pricing entry or without a
\* tokenizer, calculate_token_cost and get_token_count both raise the
\* unsupported-model error.
C10_BothRejectUnknownModel ==
    ( /\ pc = "done"
      /\ entry \in {"calculate_token_cost", "get_token_count"}
      /\ (tk_model \notin PricedModels \/ tk_model \notin registry) ) =>
        result = Exc("ValueError")

\* C10, amended: calculate_token_cost raises the unsupported-model error for
\* a model without a pricing entry or without a tokenizer; get_token_count
\* raises it for a model without a tokenizer, whatever its pricing; neither
\* returns a number in those cases.
C10_UnknownModelRejected ==
    /\ ( /\ pc = "done"
         /\ entry = "calculate_token_cost"
         /\ (tk_model \notin PricedModels \/ tk_model \notin registry) ) =>
          result = Exc("ValueError")
    /\ ( /\ pc = "done"
         /\ entry = "get_token_count"
         /\ tk_model \notin registry ) =>
          result = Exc("ValueError")

C10_Witness ==
    /\ pc = "done"
    /\ entry = "calculate_token_cost"
    /\ tk_model = "gpt-4"
    /\ tk_model \notin registry
    /\ result = Exc("ValueError")

----------------------------------------------------------------------------
\* C11: for a priced model, t input tokens and an output ceiling m,
\* calculate_token_cost returns (t/1000) * input price + (m/1000) * output
\* price, with m the ceiling its caller passed; and no smaller count and no
\* smaller ceiling gives a larger estimate for the same model.
C11_CostFormula ==
    (pc = "done" /\ entry = "calculate_token_cost" /\ result.kind = "ok") =>
        /\ tk_model \in PricedModels
        /\ result.value = input_tokens * MODEL_PRICES[tk_model].input
                          + tk_max * MODEL_PRICES[tk_model].output
        /\ \A t \in 0..MaxInputTokens, m \in OutputCeilings :
               (t <= input_tokens /\ m <= tk_max) =>
                   Cost(t, m, MODEL_PRICES[tk_model]) <= result.value

C11_Witness ==
    /\ pc = "done"
    /\ entry = "calculate_token_cost"
    /\ result.kind = "ok"
    /\ tk_model = "gpt-4"
    /\ input_tokens = MaxInputTokens
    /\ tk_max = 100
    /\ result.value = MaxInputTokens * 300 + 100 * 600

----------------------------------------------------------------------------
\* the primary path of convert_to_audio failed: the probe raised the backend
\* error, or the transcode process ended with a failure status
PrimaryFailed == cv_probe.shape = "error" \/ process = "exit1"

\* C12: whenever the primary ffmpeg path fails (the probe errors or the
\* transcode process ends in failure), convert_to_audio attempts the moviepy
\* path before it surfaces an error, and it returns an output path only if
\* one of the two paths completed successfully.
C12_FallbackBeforeError ==
    (entry = "convert_to_audio" /\ pc = "done") =>
        /\ PrimaryFailed => CallsTo("mp.VideoFileClip") # <<>>
        /\ result.kind = "ok" => cv_output = "complete"

----------------------------------------------------------------------------
\* C13: for an existing asset, whenever the metadata query delivers no
\* duration (the backend errors, or the metadata has no stream or no duration
\* field), get_audio_duration decodes the asset instead; it raises the
\* unreadable-media error (ValueError) only when both strategies failed, and
\* no other kind of error escapes.
C13_ProberFallback ==
    (entry = "get_audio_duration" /\ pc = "done" /\ audio_path \in fs) =>
        /\ gd_probe.shape # "duration" => CallsTo("AudioSegment.from_file") # <<>>
        /\ result.kind = "exc" =>
              /\ result.type = "ValueError"
              /\ gd_probe.shape # "duration"
              /\ CallsTo("AudioSegment.from_file") # <<>>

----------------------------------------------------------------------------
\* C20: on every successful conversion through the moviepy path,
\* convert_to_audio opens the clip exactly once, writes the audio file
\* exactly once, closes the clip exactly once and returns a path ending in
\* .mp3.
C20_SecondaryPathOnce ==
    (/\ entry = "convert_to_audio"
     /\ pc = "done"
     /\ result.kind = "ok"
     /\ CallsTo("mp.VideoFileClip") # <<>>) =>
        /\ Len(CallsTo("mp.VideoFileClip")) = 1
        /\ Len(CallsTo("write_audiofile")) = 1
        /\ Len(CallsTo("video.close")) = 1
        /\ result.value.suffix = ".mp3"

----------------------------------------------------------------------------
\* C14: transcribe_with_whisper on a missing file raises the not-found error
\* without a request to the backend; every failure on the backend's side (an
\* exception of the call, a response without a text field) is raised as the
\* one transcription-backend error; on success the value is exactly the text
\* field of the response.
C14_DispatcherErrorMapping ==
    /\ \A k \in DOMAIN answers :
          LET a == answers[k]
          IN  /\ a.backend.shape = "none" <=> a.out = Exc("FileNotFoundError")
              /\ a.backend.shape = "text" <=> a.out.kind = "ok"
              /\ a.backend.shape = "text" => a.out.value = a.backend.text
              /\ a.backend.shape \in {"no_text", "raises"} <=> a.out = Exc("OpenAIError")
    /\ (entry = "transcribe_with_whisper" /\ pc = "done") =>
          /\ Len(answers) = 1
          /\ result = answers[1].out
          /\ Len(CallsTo("openai.Audio.transcribe")) =
                (IF w_path \in fs THEN 1 ELSE 0)
          /\ w_path \notin fs <=> result = Exc("FileNotFoundError")

C14_Witness ==
    /\ entry = "transcribe_with_whisper"
    /\ pc = "done"
    /\ w_path \in fs
    /\ result = Exc("OpenAIError")
    /\ answers[1].backend.shape = "no_text"

----------------------------------------------------------------------------
\* C15: when the chat response lacks the expected field, generate_summary
\* fails with an error of another kind than the one raised for a failure of
\* the transport, and get_completion_text raises KeyError on such a response
\* instead of returning a value.
C15_SummaryErrorKinds ==
    (pc = "done" /\ chat_response.shape = "no_content") =>
        /\ entry = "generate_summary" =>
              result.kind = "exc" /\ result.type # "OpenAIError"
        /\ entry = "get_completion_text" => result = Exc("KeyError")

----------------------------------------------------------------------------
\* both output files of the run exist
BothWritten ==
    /\ Exists(textfiles, TranscriptPath(in_path))
    /\ Exists(textfiles, SummaryPath(in_path))

\* C16: main exits with status 1 on a wrong argument count, a missing
\* ffmpeg, a missing API key, an input file that is not found, an unsupported
\* format and any exception of transcription, summarization or saving; it
\* exits with status 0 only when transcript and summary were both produced
\* and <stem>_transcripcion.txt and <stem>_resumen.txt were both written.
C16_ExitStatus ==
    (entry = "main" /\ pc = "done") =>
        /\ result.kind = "exit"
        /\ result.value \in {0, 1}
        /\ (\/ argc # 2
            \/ ~ffmpeg_installed
            \/ ~api_key
            \/ in_path \notin fs
            \/ ~IsSupported(in_path)
            \/ ret.kind = "exc") => result.value = 1
        /\ result.value = 0 <=> BothWritten
        /\ result.value = 0 =>
              /\ Len(CallsTo("openai.ChatCompletion.create")) = 1
              /\ ret = Ok(summary)
              /\ DataOf(textfiles, TranscriptPath(in_path)) = FileBytes(transcription, linesep)
              /\ DataOf(textfiles, SummaryPath(in_path)) = FileBytes(summary, linesep)
              /\ TranscriptPath(in_path).stem = "m_transcripcion"
              /\ SummaryPath(in_path).stem = "m_resumen"

C16_Witness ==
    /\ entry = "main"
    /\ pc = "done"
    /\ result = ExitStatus(0)
    /\ BothWritten
    /\ Len(answers) = 2
    /\ summary = <<"s">>

----------------------------------------------------------------------------
\* C17: a run of main that ends with a non-zero status because of a missing
\* file, an unsupported format or an error of normalization, probing,
\* segmentation or summarization has written neither the transcript file nor
\* the summary file; the transcript file is never written before the summary
\* has been generated.
C17_NoPartialOutput ==
    entry = "main" =>
        /\ (/\ pc = "done"
            /\ result = ExitStatus(1)
            /\ (in_path \notin fs \/ ~IsSupported(in_path) \/ ret.kind = "exc")) =>
                 textfiles = {}
        /\ textfiles # {} =>
              /\ pc \in {"m_save_summary", "done"}
              /\ ret = Ok(summary)
              /\ Exists(textfiles, TranscriptPath(in_path))

C17_Witness ==
    /\ entry = "main"
    /\ pc = "done"
    /\ result = ExitStatus(1)
    /\ ret = Exc("OpenAIError")
    /\ Len(transcription) > 0
    /\ Len(exported) = 2
    /\ textfiles = {}

----------------------------------------------------------------------------
\* C19: for every transcript string s, line separators of joins and of
\* backend text included, open_transcription(p) after save_transcription(s, p)
\* returns exactly s; save_transcription creates the missing parent
\* directories; open_transcription on a missing path raises the not-found
\* error; and the same for save_translation and open_translation.
C19_RoundTrip ==
    /\ (entry \in SaveAndOpenEntries /\ pc = "done") =>
          /\ result = Ok(io_text)
          /\ WithParents(io_path.dir) \subseteq dirs
    /\ (entry \in OpenEntries /\ pc = "done" /\ ~Exists(textfiles, io_path)) =>
          result = Exc("FileNotFoundError")

----------------------------------------------------------------------------
\* C18: for two runs of the pipeline on two different input paths,
\* interleaved in any way, the scratch files written by one run
\* (<stem>_audio.mp3 and <stem>_part<k>.mp3 in the output directory) are
\* disjoint from those written by the other: no run overwrites or reads a
\* file the other produced.
C18_NoCollision ==
    (Len(runs) = 2 /\ runs[1].input # runs[2].input) =>
        /\ \A w1 \in writes, w2 \in writes : w1.path = w2.path => w1.by = w2.by
        /\ \A e \in reads : e.from = e.by

----------------------------------------------------------------------------
\* the requests sent to the chat backend
ChatRequests == CallsTo("openai.ChatCompletion.create")

\* C21: chat_completion sends exactly one request to the chat backend, with
\* the messages [system, user] in that order when a system prompt is given
\* and [user] alone when none is given, with n = 1 and the max_tokens
\* ceiling, and returns the response of the backend unchanged;
\* generate_summary always sends the fixed persona and one user message that
\* holds the transcript, and returns the text of the first candidate without
\* the surrounding whitespace.
C21_ChatRequestShape ==
    /\ (entry = "chat_completion" /\ pc = "done") =>
          /\ Len(ChatRequests) = 1
          /\ ChatRequests[1].arg.messages =
                (IF system_prompt # ""
                 THEN <<[role |-> "system", content |-> system_prompt],
                        [role |-> "user", content |-> prompt]>>
                 ELSE <<[role |-> "user", content |-> prompt]>>)
          /\ ChatRequests[1].arg.n = 1
          /\ ChatRequests[1].arg.max_tokens = max_tokens
          /\ result.kind = "ok" => result.value = chat_response
    /\ (entry = "generate_summary" /\ pc = "done") =>
          /\ Len(ChatRequests) = 1
          /\ Len(ChatRequests[1].arg.messages) = 2
          /\ ChatRequests[1].arg.messages[1] =
                [role |-> "system", content |-> SummaryPersona]
          /\ ChatRequests[1].arg.messages[2].role = "user"
          /\ \E text \in Texts :
                ChatRequests[1].arg.messages[2].content = SummaryPrompt(text)
          /\ result.kind = "ok" => result.value = Strip(chat_response.content)

----------------------------------------------------------------------------
\* C22: the transcription request of segment i+1 is issued only after that of
\* segment i has returned or failed, so at most one request is in flight at
\* any time; and a call of transcribe_with_whisper sends at most one request
\* to the backend, with no retry after a failure.
C22_SequentialDispatch ==
    /\ inflight \in {0, 1}
    /\ Len(CallsTo("transcribe_with_whisper")) = Len(answers) + inflight
    /\ Len(CallsTo("openai.Audio.transcribe")) =
          Len(SelectSeq(answers, LAMBDA a : a.backend.shape # "none")) + inflight
    /\ \A j \in DOMAIN calls :
          calls[j].fn = "openai.Audio.transcribe" =>
              /\ j > 1
              /\ calls[j - 1] = Call("transcribe_with_whisper", calls[j].arg)

C22_Witness ==
    /\ entry = "_transcribe_segments"
    /\ pc = "w_wait"
    /\ inflight = 1
    /\ Len(answers) = 2
    /\ answers[2].out = Exc("OpenAIError")
    /\ Len(CallsTo("openai.Audio.transcribe")) = 3

----------------------------------------------------------------------------
\* C23: progress reporting is advisory.  The outcome of convert_to_audio does
\* not depend on the duration probed for the progress bar: a conversion of an
\* existing video fails only when the backend failed (the probe raised its
\* error or found no stream, or the transcode ended in failure), never
\* because the probed duration is missing or zero.
C23_ProgressIsAdvisory ==
    (/\ entry = "convert_to_audio"
     /\ pc = "done"
     /\ audio_path \in fs
     /\ result.kind = "exc") =>
        \/ cv_probe.shape \in {"error", "no_stream"}
        \/ process = "exit1"

----------------------------------------------------------------------------
\* the calls that probe, decode or transcribe an asset
AssetCalls == {"get_audio_duration", "AudioSegment.from_file",
               "transcribe_with_whisper", "openai.Audio.transcribe"}

\* the asset transcribe_audio has to work on: the converted audio of a video,
\* the input itself for an audio
WorkingAsset == IF is_video_file(in_path) THEN ConvertedPath(in_path) ELSE in_path

\* the dispatcher is running for transcribe_audio itself, not for a segment
DirectDispatch ==
    /\ stack # <<>>
    /\ \/ pc \in {"w_open", "w_wait"} /\ Head(stack) = "ta_after_whisper"
       \/ pc = "ta_after_whisper"

\* C24, in every state of a run of transcribe_audio
C24_State ==
    entry \in {"transcribe_audio", "main"} =>
        /\ Len(CallsTo("convert_to_audio")) <= (IF is_video_file(in_path) THEN 1 ELSE 0)
        /\ \A c \in {CallsTo("convert_to_audio")[k] : k \in DOMAIN CallsTo("convert_to_audio")} :
              c.arg = in_path
        /\ \A j \in DOMAIN calls :
              calls[j].fn \in AssetCalls =>
                  /\ is_video_file(in_path) => calls[j].arg # in_path
                  /\ \/ calls[j].arg = WorkingAsset
                     \/ \E k \in 1..(Len(exported) + 1) :
                           calls[j].arg = SegmentPath(WorkingAsset, k)
        /\ CallsTo("get_audio_duration") # <<>> =>
              Len(CallsTo("convert_to_audio")) = (IF is_video_file(in_path) THEN 1 ELSE 0)
        /\ DirectDispatch =>
              /\ ~ExceedsMaximum(duration, cfg_max)
              /\ w_path = WorkingAsset
              /\ Len(CallsTo("transcribe_with_whisper")) = (IF pc = "w_open" THEN 0 ELSE 1)
        /\ (entry = "transcribe_audio" /\ pc = "done") =>
              /\ (in_path \in fs /\ is_video_file(in_path)) =>
                    Len(CallsTo("convert_to_audio")) = 1
              /\ (answers # <<>> /\ sa_path = NoPath) =>
                    /\ ~ExceedsMaximum(duration, cfg_max)
                    /\ Len(CallsTo("transcribe_with_whisper")) = 1
                    /\ result.kind = "ok" => result.value = answers[1].backend.text

\* C24, in every step: a probed duration within the budget leads to the dispatcher
C24_Step ==
    (/\ pc = "ta_after_probe"
     /\ ret.kind = "ok"
     /\ ~ExceedsMaximum(ret.value, cfg_max)) =>
        /\ pc' = "w_open"
        /\ w_path' = WorkingAsset
        /\ Head(stack') = "ta_after_whisper"

\* C24: for a video input the normalizer is invoked exactly once, and
\* probing, segmentation and transcription work on the normalized audio,
\* never on the video; for an audio input the normalizer is never invoked;
\* when the probed duration is within the budget the dispatcher is called
\* exactly once and the transcript is the text of the backend.
C24_VideoHandling == []C24_State /\ [][C24_Step]_vars

C24_Witness ==
    /\ entry = "transcribe_audio"
    /\ pc = "done"
    /\ is_video_file(in_path)
    /\ Len(CallsTo("convert_to_audio")) = 1
    /\ Len(CallsTo("transcribe_with_whisper")) = 1
    /\ answers[1].path = ConvertedPath(in_path)
    /\ result = Ok(<<"b", NL, "c">>)

----------------------------------------------------------------------------
\* C25: split_audio on a missing source raises the not-found error before
\* decoding and without writing a file; a failure while decoding or exporting
\* is a ValueError, never a shorter list; the file of window k is named
\* <parent-stem>_part<k>.mp3, k counted from 1 in timeline order.
C25_SegmenterErrors ==
    /\ \A k \in DOMAIN exported :
          /\ exported[k].path = [dir |-> OUTPUT_DIR,
                                 stem |-> sa_path.stem \o "_part" \o ToString(k),
                                 suffix |-> ".mp3"]
          /\ k > 1 => exported[k - 1].lo < exported[k].lo
    /\ (entry = "split_audio" /\ pc = "done") =>
          /\ sa_path \notin fs =>
                /\ result = Exc("FileNotFoundError")
                /\ CallsTo("AudioSegment.from_file") = <<>>
                /\ CallsTo("export") = <<>>
                /\ exported = <<>>
                /\ fs = {}
          /\ sa_path \in fs =>
                /\ Len(CallsTo("AudioSegment.from_file")) = 1
                /\ result.kind = "exc" => result.type = "ValueError"
                /\ Len(CallsTo("export")) > Len(exported) => result = Exc("ValueError")
                /\ result.kind = "ok" =>
                      \/ result.value = <<sa_path>> /\ exported = <<>>
                      \/ result.value = [k \in DOMAIN exported |-> exported[k].path]

C25_Witness ==
    /\ entry = "split_audio"
    /\ pc = "done"
    /\ result = Exc("ValueError")
    /\ Len(exported) = 2
    /\ Len(CallsTo("export")) = 3
    /\ exported[2].path.stem = "m_part2"

----------------------------------------------------------------------------
\* a segmented run whose segments have all been answered, each with a failure
EverySegmentFailed ==
    /\ Len(exported) >= 1
    /\ Len(answers) = Len(exported)
    /\ \A k \in DOMAIN answers :
          /\ answers[k].path = exported[k].path
          /\ answers[k].out.kind = "exc"

\* the N-1 separators of N empty fragments
OnlySeparators(n) == [k \in 1..(n - 1) |-> NL]

\* C26: when every segment of a segmented run fails, transcribe_audio returns
\* the N-1 newline separators; main requests a summary of that transcript and,
\* when the summary succeeds and the files can be written, writes both files
\* and exits with 0; the failed segments themselves never end the run.
C26_AllSegmentsFailed ==
    EverySegmentFailed =>
        /\ (entry = "transcribe_audio" /\ pc = "done") =>
              result = Ok(OnlySeparators(Len(exported)))
        /\ (entry = "main" /\ pc = "m_after_transcribe") =>
              ret = Ok(OnlySeparators(Len(exported)))
        /\ (entry = "main" /\ pc = "done") =>
              /\ transcription = OnlySeparators(Len(exported))
              /\ Len(CallsTo("calculate_token_cost")) = 1
              /\ result.kind = "exit"
              /\ result.value = 0 <=> BothWritten
              /\ result.value = 0 =>
                    DataOf(textfiles, TranscriptPath(in_path)) =
                        FileBytes(OnlySeparators(Len(exported)), linesep)
              /\ result.value = 1 => (ret.kind = "exc" \/ ~BothWritten)
              /\ (ret.kind = "ok" /\ result.value = 1) =>
                    /\ ret = Ok(summary)
                    /\ Len(CallsTo("openai.ChatCompletion.create")) = 1

C26_Witness ==
    /\ entry = "main"
    /\ pc = "done"
    /\ EverySegmentFailed
    /\ Len(exported) = 2
    /\ transcription = <<NL>>
    /\ result = ExitStatus(0)
    /\ BothWritten

----------------------------------------------------------------------------
\* C27: for an existing decodable asset and any integer max_length_minutes,
\* split_audio raises or returns a non-empty list in which no exported segment
\* has zero length; the assembler never joins zero segments.
C27_NeverEmptyList ==
    /\ SplitReturned =>
          /\ SplitValue # <<>>
          /\ \A k \in DOMAIN exported : exported[k].lo < exported[k].hi
    /\ (pc = "ts_loop" /\ entry \in {"transcribe_audio", "main"}) => segments # <<>>

====
